---- MODULE Spec2Model ----
(***************************************************************************)
(* Book-Finder bot (src/bot.py): the streaming downloader                  *)
(* download_book_to_discord, the mirror resolver                           *)
(* get_libgen_download_link_async, and the bot around them: the search     *)
(* search_libgen_async, the command findbook_command and the selection     *)
(* view SearchResultSelectView, whose coroutines interleave at their       *)
(* awaits and share one HTTP session.                                      *)
(*                                                                         *)
(* Sizes are counted in blocks of one MiB.  Text (titles, file names) is a *)
(* sequence of tokens: single characters and whole words.  The body of a   *)
(* response is the block sequence 1, 2, 3, ...; a chunk is the next few    *)
(* blocks of it.                                                           *)
(***************************************************************************)
EXTENDS Integers, Sequences, FiniteSets, TLC

\* ---------------------------------------------------------------- bounds
\* most blocks one chunk of iter_content carries
MaxChunk == 5
\* most chunks (empty keep-alive chunks included) one body is streamed in
MaxChunks == 2
\* most anchors with an href on a mirror page
MaxAnchors == 2

\* ------------------------------------------------------------- constants
None == "None"

DISCORD_FILE_LIMIT_MB == 8
\* blocks per MiB: the model's size unit stands for the code's 1024 * 1024 bytes
BLOCKS_PER_MB == 1
DISCORD_FILE_LIMIT_BYTES == DISCORD_FILE_LIMIT_MB * BLOCKS_PER_MB

\* filename[:200]
SAFE_FILENAME_MAX == 200

\* ------------------------------------------------------------ text helpers
Min(a, b) == IF a < b THEN a ELSE b

\* r with the fields of s
With(r, s) == [x \in DOMAIN r |-> IF x \in DOMAIN s THEN s[x] ELSE r[x]]

\* str.lower() on the tokens the model uses
Lower(t) ==
  CASE t = "PDF" -> "pdf"
    [] t = "EPUB" -> "epub"
    [] t = ".PDF" -> ".pdf"
    [] t = "N/A" -> "n/a"
    [] t = "EXE" -> "exe"
    [] OTHER -> t

\* urllib.parse.unquote on one token
Unquote(t) == IF t = "%2F" THEN "/" ELSE t

RECURSIVE MapUnquote(_)
MapUnquote(s) ==
  IF s = <<>> THEN <<>> ELSE <<Unquote(Head(s))>> \o MapUnquote(Tail(s))

\* the character class of re.sub(r'[\\/*?:"<>|]', "", filename)
HostileChars == {"\\", "/", "*", "?", ":", "\"", "<", ">", "|"}

RECURSIVE RemoveHostile(_)
RemoveHostile(s) ==
  IF s = <<>> THEN <<>>
  ELSE IF Head(s) \in HostileChars THEN RemoveHostile(Tail(s))
  ELSE <<Head(s)>> \o RemoveHostile(Tail(s))

\* filename.replace('/', '_').replace('\\', '_')
RECURSIVE ReplaceSlashes(_)
ReplaceSlashes(s) ==
  IF s = <<>> THEN <<>>
  ELSE <<IF Head(s) \in {"/", "\\"} THEN "_" ELSE Head(s)>> \o ReplaceSlashes(Tail(s))

\* re.sub(r'\.+', '.', filename)
RECURSIVE CollapseDots(_)
CollapseDots(s) ==
  IF Len(s) < 2 THEN s
  ELSE IF Head(s) = "." /\ Head(Tail(s)) = "." THEN CollapseDots(Tail(s))
  ELSE <<Head(s)>> \o CollapseDots(Tail(s))

RECURSIVE LStrip(_, _)
LStrip(s, chars) ==
  IF s # <<>> /\ Head(s) \in chars THEN LStrip(Tail(s), chars) ELSE s

RECURSIVE RStrip(_, _)
RStrip(s, chars) ==
  IF s # <<>> /\ s[Len(s)] \in chars THEN RStrip(SubSeq(s, 1, Len(s) - 1), chars) ELSE s

\* filename.strip('. ')
Strip(s, chars) == RStrip(LStrip(s, chars), chars)

safe_filename(filename) ==
  LET a == MapUnquote(filename)
      b == RemoveHostile(a)
      c == ReplaceSlashes(b)
      d == CollapseDots(c)
      e == Strip(d, {".", " "})
      f == IF e = <<>> THEN <<"downloaded_file">> ELSE e
  IN  SubSeq(f, 1, Min(Len(f), SAFE_FILENAME_MAX))

\* os.path.splitext: the extension starts at the last dot of the last path
\* component, unless only dots precede it in that component
RECURSIVE LastIndexOf(_, _)
LastIndexOf(s, chars) ==
  IF s = <<>> THEN 0
  ELSE IF s[Len(s)] \in chars THEN Len(s)
  ELSE LastIndexOf(SubSeq(s, 1, Len(s) - 1), chars)

SplitextDot(s) ==
  LET sep == LastIndexOf(s, {"/"})
      dot == LastIndexOf(s, {"."})
  IN  IF dot > sep /\ \E i \in (sep + 1)..(dot - 1) : s[i] # "." THEN dot ELSE 0

SplitextBase(s) == IF SplitextDot(s) = 0 THEN s ELSE SubSeq(s, 1, SplitextDot(s) - 1)

\* the text after the dot as one token; "~" stands for any text of several tokens
SplitextExt(s) ==
  LET dot == SplitextDot(s)
      rest == IF dot = 0 THEN <<>> ELSE SubSeq(s, dot + 1, Len(s))
  IN  IF rest = <<>> THEN "" ELSE IF Len(rest) = 1 THEN rest[1] ELSE "~"


\* ------------------------------------------------------------ HTTP values
\* Content-Length header values (header values are text; int() parses them)
ContentLengths == {None, "abc", "8", "9"}

\* int(content_length); -1 stands for ValueError
ParseInt(t) ==
  CASE t = "8" -> 8
    [] t = "9" -> 9
    [] OTHER -> -1

\* Content-Type header values after .lower(); "" is the header's absence
ContentTypes == {"text/html; charset=utf-8", "application/pdf", ""}

\* 'text/html' in content_type
IsHtml(content_type) == content_type = "text/html; charset=utf-8"

\* content_type.split(';')[0].strip()
ContentTypeBase(content_type) ==
  CASE content_type = "text/html; charset=utf-8" -> "text/html"
    [] content_type = "application/epub+zip; charset=binary" -> "application/epub+zip"
    [] OTHER -> content_type

\* Content-Disposition header values: absent, without a filename parameter, or
\* with the file name the regular expression captures
HeaderFilenames == { <<"b", "%2F", "k", ".", "EPUB">>, <<"b", ".", "exe">> }

\* present: the header exists; filename: what
\* re.search('filename\*?=(?:UTF-\d\'\')?"?([^";\r\n]+)"?', ...) captures, <<>> when
\* it does not match
ContentDisposition(present, filename) == [present |-> present, filename |-> filename]
ContentDispositions ==
  {ContentDisposition(FALSE, <<>>), ContentDisposition(TRUE, <<>>)}
    \cup {ContentDisposition(TRUE, f) : f \in HeaderFilenames}

\* URLs a download can end at after redirects
DownloadUrls == {"http://h/get.php", "http://h/b.djvu", "https://sci-hub.se/x"}

\* 'sci-hub.' in str(final_url)
HasSciHub(url) == url = "https://sci-hub.se/x"

\* urllib.parse.urlparse(final_url).path, as tokens
UrlPath(url) ==
  CASE url = "http://h/get.php" -> <<"/", "get", ".", "php">>
    [] url = "http://h/b.djvu" -> <<"/", "b", ".", "djvu">>
    [] OTHER -> <<"/", "x">>

\* first bytes of an HTML body, decoded
Snippets == {"<h1>404</h1>", "Solve the CAPTCHA", "Verify you are human", "<form>", "<FORM>"}

\* 'captcha' in text_snippet.lower()
SnippetHasCaptcha(t) == t = "Solve the CAPTCHA"
\* 'verify you are human' in text_snippet.lower()
SnippetHasVerify(t) == t = "Verify you are human"
\* '<form' in text_snippet
SnippetHasForm(t) == t = "<form>"

Msgs == {"m1", "m2"}

\* exception classes: requests.exceptions.Timeout and ConnectionError and
\* HTTPError are RequestException; the others are not
ExcClasses == {"Timeout", "ConnectionError", "RuntimeError"}
IsTimeout(cls) == cls = "Timeout"
IsRequestException(cls) == cls \in {"Timeout", "ConnectionError", "HTTPError"}

Exc(cls, msg, status) == [cls |-> cls, msg |-> msg, status |-> status]
NoExc == Exc(None, None, 0)
\* int() of text that is no number
ValueError == Exc("ValueError", "invalid literal", 0)
\* response.raise_for_status()
HTTPError(status) == Exc("HTTPError", "http error", status)
\* response.raw.peek does not exist or fails
PeekErrors == {Exc("AttributeError", "peek", 0)}

\* what a request can raise, and what the HEAD request and a body read raise in
\* the model (one message each)
NetworkErrors == {Exc(c, m, 0) : c \in ExcClasses, m \in Msgs}
HeadErrors == {Exc(c, "m1", 0) : c \in ExcClasses}
FetchErrors == {Exc(c, "m1", 0) : c \in ExcClasses}
StreamErrors == {Exc(c, "m2", 0) : c \in ExcClasses}

\* what a request comes back with: an exception or a response
Outcome(exc, resp) == [exc |-> exc, resp |-> resp]

\* a requests.Response: status, the headers the code reads, the final URL, and
\* whether its connection is closed (response.raw.closed)
Resp(status, ct, cl, cd, url) ==
  [status |-> status, content_type |-> ct, content_length |-> cl,
   content_disposition |-> cd, url |-> url, closed |-> FALSE]
NoResp == [status |-> 0, content_type |-> "", content_length |-> None,
           content_disposition |-> ContentDisposition(FALSE, <<>>), url |-> None,
           closed |-> FALSE]

\* requests.Response.__bool__ is Response.ok: the status is below 400
Truthy(resp) == resp # NoResp /\ resp.status < 400

\* response.close()
Close(resp) == [resp EXCEPT !.closed = TRUE]

\* ------------------------------------------------------------ outcomes
\* the value download_book_to_discord returns: a discord.File or a text.  kind
\* names the text's wording; size, status, url and msg are what it quotes.
Result(type, kind, size, status, url, msg, fp, filename) ==
  [type |-> type, kind |-> kind, size |-> size, status |-> status, url |-> url,
   msg |-> msg, fp |-> fp, filename |-> filename]
NoResult == Result(None, None, 0, 0, None, None, <<>>, <<>>)
Text(kind, size, status, url, msg) == Result("str", kind, size, status, url, msg, <<>>, <<>>)
File(fp, filename) == Result("File", None, 0, 0, None, None, fp, filename)


\* ------------------------------------------------------------ mirror pages
\* a URL or an href, split as urllib.parse.urlparse splits it; an href without
\* scheme and host is relative, and the empty href has an empty path as well
Url(scheme, host, path) == [scheme |-> scheme, host |-> host, path |-> path]
NoUrl == Url(None, None, None)

\* the page URLs resolve is called with: none, not http, unparsable, a page
\* whose path looks like a document (twice), a plain mirror page
PageUrls ==
  {Url("", "", ""), Url("ftp", "mirror.org", "/main/1"), Url("http", "[x", "/main/1"),
   Url("http", "mirror.org", "/b.PDF"), Url("http", "mirror.org", "/b.epub"),
   Url("http", "mirror.org", "/main/1")}

\* page_url is set and page_url.startswith('http')
StartsWithHttp(u) == u.scheme \in {"http", "https"}

\* urllib.parse.urlparse raises ValueError (an unclosed bracket in the host)
UrlparseRaises(u) == u.host = "[x"

\* the extensions a page URL may end in to be taken for the file itself
DocumentExtensions == {".pdf", ".epub", ".mobi", ".zip", ".djvu", ".rar", ".chm", ".azw3"}

\* the last characters of the URL, from its last dot on ("" when the last
\* path segment has no dot)
UrlSuffix(u) ==
  CASE u.path = "/b.PDF" -> ".PDF"
    [] u.path = "/b.epub" -> ".epub"
    [] u.path = "/long.epub" -> ".epub"
    [] OTHER -> ""

\* slip: the URL is compared as it is written
EndsWithDocumentExtension_CaseSensitive(u) == UrlSuffix(u) \in DocumentExtensions

\* page_url.lower().endswith(ext) for one of the document extensions
EndsWithDocumentExtension(u) == Lower(UrlSuffix(u)) \in DocumentExtensions

\* where a fetch of page_url can end after redirects
FinalUrls(u) == {u, Url("http", "hostb.org", "/ads.php")}

\* the hrefs of the anchors of a page
Hrefs ==
  {Url("", "", "/get.php?md5=ABC"), Url("http", "cdn.example", "/get?key=K"),
   Url("", "", "/book/index.php?md5=ABC"), Url("http", "libgen.rs", "/search.php?req=x"),
   Url("", "", "")}

\* the text fragments the resolver looks for that an href holds
Fragments(href) ==
  (CASE href.path = "/get.php?md5=ABC" -> {"get.php?md5=", "get.php", "get"}
     [] href.path = "/get?key=K" -> {"/get?", "get"}
     [] href.path = "/book/index.php?md5=ABC" -> {"/book/index.php"}
     [] href.path = "/search.php?req=x" -> {"search.php"}
     [] OTHER -> {})
  \cup
  (CASE href.host = "libgen.rs" -> {"libgen.rs"}
     [] OTHER -> {})

\* an <a href=...> element: its text, whether it is a direct child of an h2,
\* whether it lies in the td with bgcolor #A9F5BC, and its href.  The pages of
\* the model have no h2 inside that td.
Anchor(text, h2, td, href) == [text |-> text, h2 |-> h2, td |-> td, href |-> href]
Anchors ==
  {Anchor(t, p = "h2", p = "td", r) : t \in {"Get", "Mirror"}, p \in {"h2", "td", "body"},
                                     r \in Hrefs}

\* a page: its anchors in document order
Pages == UNION {[1..n -> Anchors] : n \in 0..MaxAnchors}

\* link.get_text(strip=True).upper() == 'GET'
IsGetText(a) == a.text = "Get"

\* the anchor a pattern chose (its place on the page), or none.  Pattern 4
\* makes a new tag of an href: its place is 0.
Tag(found, at, href) == [found |-> found, at |-> at, href |-> href]
NoTag == Tag(FALSE, 0, NoUrl)

\* the first of the places in S (document order), 0 when there is none
First(S) == IF S = {} THEN 0 ELSE CHOOSE i \in S : \A j \in S : i <= j

\* the places of the page whose anchor is in the set As
Places(page, As) == {i \in 1..Len(page) : page[i] \in As}

\* pattern 1: soup.select_one('h2 > a[href]') with the text GET
InH2 == {a \in Anchors : a.h2}
Pattern1(page) ==
  LET i == First(Places(page, InH2))
  IN  IF i # 0 /\ IsGetText(page[i]) THEN Tag(TRUE, i, page[i].href) ELSE NoTag

\* pattern 2: in the td with bgcolor #A9F5BC, the first anchor whose href
\* matches get\.php\?md5=|/get\? , with the text GET
InTdWithGetHref ==
  {a \in Anchors : a.td /\ Fragments(a.href) \cap {"get.php?md5=", "/get?"} # {}}
Pattern2(page) ==
  LET i == First(Places(page, InTdWithGetHref))
  IN  IF i # 0 /\ IsGetText(page[i]) THEN Tag(TRUE, i, page[i].href) ELSE NoTag

\* pattern 3: the first anchor with the text GET, a download fragment in its
\* href and no host or the host of the page
Pattern3(page, mirror_host) ==
  LET likely ==
        {a \in Anchors :
           /\ IsGetText(a)
           /\ Fragments(a.href) \cap {"get.php", "/get?", "download"} # {}
           /\ (a.href.host = "" \/ a.href.host = mirror_host)}
      i == First(Places(page, likely))
  IN  IF i # 0 THEN Tag(TRUE, i, page[i].href) ELSE NoTag

\* pattern 4: the hrefs on known hosts or paths, search pages left out; the
\* first preferred one, else the first one
IsPossible(a) ==
  /\ Fragments(a.href) \cap {"library.lol", "libgen.rs", "books.ms", "sci-hub", "/scimag/",
                             "/get?", "/download.php", "/book/index.php"} # {}
  /\ Fragments(a.href) \cap {"search.php", "browse.php"} = {}
IsPreferred(a) ==
  IsPossible(a) /\ Fragments(a.href) \cap {"get", "library.lol", "sci-hub"} # {}
Pattern4(page) ==
  LET p == First(Places(page, {a \in Anchors : IsPreferred(a)}))
      q == First(Places(page, {a \in Anchors : IsPossible(a)}))
  IN  IF p # 0 THEN Tag(TRUE, 0, page[p].href)
      ELSE IF q # 0 THEN Tag(TRUE, 0, page[q].href)
      ELSE NoTag

\* the tag of the k-th pattern
PatternTag(k, page, mirror_host) ==
  CASE k = 1 -> Pattern1(page)
    [] k = 2 -> Pattern2(page)
    [] k = 3 -> Pattern3(page, mirror_host)
    [] OTHER -> Pattern4(page)

\* slip: the general search for a GET anchor runs before the td pattern
Cascade_GeneralFirst(page, mirror_host) ==
  LET order == <<1, 3, 2, 4>>
      hits == {i \in 1..4 : PatternTag(order[i], page, mirror_host).found}
  IN  IF hits = {} THEN 0 ELSE order[CHOOSE i \in hits : \A j \in hits : i <= j]

\* the pattern whose tag download_link_tag ends up as, 0 when none: each
\* pattern runs only if not download_link_tag
Cascade(page, mirror_host) ==
  IF Pattern1(page).found THEN 1
  ELSE IF Pattern2(page).found THEN 2
  ELSE IF Pattern3(page, mirror_host).found THEN 3
  ELSE IF Pattern4(page).found THEN 4
  ELSE 0

\* urllib.parse.urljoin(base, href) for an absolute href, an href that is an
\* absolute path, and the empty href
urljoin(base, href) ==
  IF href.scheme # "" THEN href
  ELSE IF href.path = "" THEN base
  ELSE Url(base.scheme, base.host, href.path)

\* what the fetch of the page can come back with
Page(status, url, anchors) == [status |-> status, url |-> url, anchors |-> anchors]
NoPage == Page(0, NoUrl, <<>>)
FetchOutcomes(u) ==
  {Outcome(e, NoPage) : e \in FetchErrors}
    \cup {Outcome(NoExc, Page(404, u, <<>>))}
    \cup {Outcome(NoExc, Page(200, f, a)) : f \in FinalUrls(u), a \in Pages}

\* ------------------------------------------------------------ inputs
\* title hints and extension hints of a download
Titles == { <<"a", "%2F", ".", ".", "b", " ">>, <<".", "/">> }
Hints == {"n/a", "bin", "PDF"}
\* "" is a missing download URL
RequestUrls == {"", "http://h/get.php"}

\* what the HEAD request can come back with
HeadOutcomes ==
  {Outcome(e, NoResp) : e \in HeadErrors}
    \cup {Outcome(NoExc, Resp(200, "", cl, ContentDisposition(FALSE, <<>>), "http://h/get.php")) :
            cl \in ContentLengths}
    \cup {Outcome(NoExc, Resp(404, "", None, ContentDisposition(FALSE, <<>>), "http://h/get.php"))}

\* status codes of a GET response: success, the fast-fail codes, another error
GetStatuses == {200, 502, 503, 504, 404, 403, 500}

GetOutcomes ==
  {Outcome(e, NoResp) : e \in NetworkErrors}
    \cup {Outcome(NoExc, Resp(st, ct, cl, cd, u)) :
            st \in GetStatuses, ct \in ContentTypes, cl \in ContentLengths,
            cd \in ContentDispositions, u \in DownloadUrls}

\* what response.raw.peek(2048) can come back with
PeekOutcome(exc, snippet) == [exc |-> exc, snippet |-> snippet]
PeekOutcomes ==
  {PeekOutcome(e, "") : e \in PeekErrors} \cup {PeekOutcome(NoExc, t) : t \in Snippets}

\* ------------------------------------------------------------ the bot's values
Users == {"A", "B"}

LIBGEN_BASE_URL == Url("https", "libgen.is", "")
\* LIBGEN_BASE_URL + '/'
BaseReferer == Url(LIBGEN_BASE_URL.scheme, LIBGEN_BASE_URL.host, "/")

\* the categories of /findbook and the search page of each topic
Categories == {"libgen", "fiction", "scimag", "magz"}
SEARCH_URLS ==
  [t \in {"libgen", "fiction", "scimag"} |->
     Url(LIBGEN_BASE_URL.scheme, LIBGEN_BASE_URL.host,
         CASE t = "libgen" -> "/search.php" [] t = "fiction" -> "/fiction/"
           [] OTHER -> "/scimag/")]

\* an HTTP request as it is sent: method, URL and the Referer header
Request(method, url, ref) == [method |-> method, url |-> url, referer |-> ref]

\* a search result: the URLs the selection flow uses (None is NoUrl)
Item(m1, m2, details) == [mirror1_url |-> m1, mirror2_url |-> m2, details_url |-> details]
NoItem == Item(NoUrl, NoUrl, NoUrl)
Mirror2 == Url("http", "mirror2.org", "/m2")
Details == Url("https", "libgen.is", "/book/1")
\* a row whose first mirror is a document URL of some two thousand characters
LongItem == Item(Url("http", "mirror.org", "/long.epub"), Mirror2, NoUrl)
\* rows with both mirrors, with a document URL as first mirror, with an
\* unparsable first mirror, with the details page (an ftp link) as first
\* mirror, with only the second mirror
Items ==
  {Item(Url("http", "mirror.org", "/main/1"), Mirror2, Details),
   Item(Url("http", "mirror.org", "/b.epub"), NoUrl, Details),
   Item(Url("http", "[x", "/main/1"), NoUrl, NoUrl),
   Item(Url("ftp", "mirror.org", "/main/1"), NoUrl, Url("ftp", "mirror.org", "/main/1")),
   Item(NoUrl, Mirror2, NoUrl)}

\* a table of the search page: whether it has a first row and whether that
\* row names Author, Title, ...; and what its further rows parse to, NoItem
\* for a row that is skipped
Table(header, rows) == [header |-> header, rows |-> rows]
SearchPage(status, tables, broken) == [status |-> status, tables |-> tables, broken |-> broken]
NoSearchPage == SearchPage(0, <<>>, FALSE)
OneRowPages ==
  {<<>>, <<Table("other", <<>>)>>, <<Table("none", <<>>)>>, <<Table("match", <<>>)>>,
   <<Table("match", <<NoItem>>)>>, <<Table("match", <<LongItem>>)>>,
   <<Table("other", <<>>),
     Table("other", <<Item(Url("http", "mirror.org", "/main/1"), Mirror2, Details)>>)>>}
    \cup {<<Table("match", <<i>>)>> : i \in Items}
TablesOfPages ==
  OneRowPages
    \cup {<<Table("match", <<i, Item(NoUrl, Mirror2, NoUrl)>>)>> : i \in Items \ {Item(NoUrl, Mirror2, NoUrl)}}

\* what the search request can come back with when the site serves the
\* tables of catalog; broken says that parsing the body raises
SearchOutcomes(catalog) ==
  {Outcome(e, NoSearchPage) : e \in FetchErrors}
    \cup {Outcome(NoExc, SearchPage(503, <<>>, FALSE))}
    \cup {Outcome(NoExc, SearchPage(200, t, FALSE)) : t \in catalog}
    \cup {Outcome(NoExc, SearchPage(200, <<Table("match", <<>>)>>, TRUE))}

\* the environment of a run
Env(invokers, faults, catalog) ==
  [invokers |-> invokers, faults |-> faults, catalog |-> catalog]

\* the number of tr rows of a table
Trs(table) == IF table.header = "none" THEN 0 ELSE 1 + Len(table.rows)

\* the table the rows are taken from: the first whose first row names a known
\* column, else the first with more than one row; 0 when there is none
MainTable(tables) ==
  LET byHeader == {i \in 1..Len(tables) : tables[i].header = "match"}
      byRows == {i \in 1..Len(tables) : Trs(tables[i]) > 1}
  IN  IF byHeader # {} THEN First(byHeader) ELSE First(byRows)

\* the rows that were not skipped, in order
RECURSIVE Parsed(_)
Parsed(rows) ==
  IF rows = <<>> THEN <<>>
  ELSE (IF Head(rows) = NoItem THEN <<>> ELSE <<Head(rows)>>) \o Parsed(Tail(rows))

\* the place search_libgen_async returns at
SearchPath(o) ==
  IF o.exc # NoExc THEN "transport"
  ELSE IF o.resp.status >= 400 THEN "status"
  ELSE IF o.resp.broken THEN "parse_error"
  ELSE IF o.resp.tables = <<>> THEN "no_table"
  ELSE IF MainTable(o.resp.tables) = 0 THEN "no_main_table"
  ELSE IF Trs(o.resp.tables[MainTable(o.resp.tables)]) <= 1 THEN "zero_rows"
  ELSE "rows"

\* what search_libgen_async returns
search_libgen_async(o) ==
  IF SearchPath(o) = "rows" THEN Parsed(o.resp.tables[MainTable(o.resp.tables)].rows)
  ELSE <<>>

\* ---- the rows of a results table, as search_libgen_async reads them
\* most data rows of a results table
MaxRows == 2

\* max_defined_index: the largest column index of the topic's idx
MaxDefinedIndex(topic) ==
  CASE topic = "fiction" -> 5
    [] topic = "scimag" -> 4
    [] OTHER -> 10

\* the topic's idx has one column for all mirrors (mirror1 and mirror2 are -1)
MirrorsColumn(topic) == topic \in {"fiction", "scimag"}

\* the title cell: whether it holds an <a href>, its text in tokens (a token
\* in brackets stands for a bracketed run of 10 to 13 digits), and the href
TitleCell(link, text, href) == [link |-> link, text |-> text, href |-> href]
IsIsbn(token) == token \in {"[9781234567890]", "[1234567890]"}
TitleCells ==
  {TitleCell(TRUE, t, Url("", "", "/book/1")) :
     t \in {<<"Book">>, <<"Book", "[9781234567890]">>, <<"[9781234567890]">>,
            <<"Book", "[9781234567890]", "[1234567890]">>}}
    \cup {TitleCell(TRUE, <<"Book">>, Url("http", "[x", "/book/1"))}
    \cup {TitleCell(FALSE, t, NoUrl) : t \in {<<"Book">>, <<"Book", "[9781234567890]">>, <<>>}}

\* a data row: the number of its td cells, its title cell, and the hrefs of
\* the first two anchors of its mirror cells (NoUrl where there is no anchor):
\* of the mirror1 and the mirror2 cell, or of the one mirrors cell
Row(cells, title, hrefs) == [cells |-> cells, title |-> title, hrefs |-> hrefs]
MirrorHrefs ==
  {<<NoUrl, NoUrl>>, <<Url("http", "mirror.org", "/main/1"), Mirror2>>,
   <<Url("", "", "/ads.php"), Mirror2>>}
Rows(topic) ==
  {Row(MaxDefinedIndex(topic) + 1, t, h) : t \in TitleCells, h \in MirrorHrefs}
    \cup {Row(n, TitleCell(TRUE, <<"Book">>, Url("", "", "/book/1")),
               <<Url("http", "mirror.org", "/main/1"), Mirror2>>) :
            n \in {MaxDefinedIndex(topic) - 1, MaxDefinedIndex(topic)}}

\* re.sub(r'\s*\[?\d{10,13}[X]?\]?\s*$', '', title).strip(): the one fragment
\* at the end of the text goes
StripIsbn(text) ==
  IF text # <<>> /\ IsIsbn(text[Len(text)]) THEN SubSeq(text, 1, Len(text) - 1) ELSE text

\* title: the text of the link without the fragment, or the text of the
\* cell; "N/A" if that is empty
RowTitle(cell) ==
  LET title == IF cell.link THEN StripIsbn(cell.text) ELSE cell.text
  IN  IF title = <<>> THEN <<"N/A">> ELSE title

\* url_val and url_val.startswith('http')
IsHttpHref(h) == h # NoUrl /\ StartsWithHttp(h)

\* target_url_mirror1 and target_url_mirror2 as the mirror cells give them
MirrorTargets(topic, hrefs) ==
  IF MirrorsColumn(topic)
  THEN LET found_mirrors == SelectSeq(hrefs, IsHttpHref)
       IN  [mirror1 |-> IF Len(found_mirrors) > 0 THEN found_mirrors[1] ELSE NoUrl,
            mirror2 |-> IF Len(found_mirrors) > 1 THEN found_mirrors[2] ELSE NoUrl]
  ELSE [mirror1 |-> IF IsHttpHref(hrefs[1]) THEN hrefs[1] ELSE NoUrl,
        mirror2 |-> IF IsHttpHref(hrefs[2]) THEN hrefs[2] ELSE NoUrl]

\* an entry of results (the fields the claims are about), and what becomes of
\* a row: skipped (for too few cells, an exception, no link) or appended
ResultItem(title, m1, m2, details) ==
  [title |-> title, mirror1_url |-> m1, mirror2_url |-> m2, details_url |-> details]
NoResultItem == ResultItem(<<>>, NoUrl, NoUrl, NoUrl)
Skipped(why) == [kind |-> why, item |-> NoResultItem]
Appended(item) == [kind |-> "item", item |-> item]

\* slip: a row without a first mirror is taken as it is
ParseRow_NoDetailsFallback(topic, row) ==
  IF row.cells <= MaxDefinedIndex(topic) THEN Skipped("short")
  ELSE IF row.title.link /\ UrlparseRaises(row.title.href) THEN Skipped("raised")
  ELSE LET details_url == IF row.title.link THEN urljoin(SEARCH_URLS[topic], row.title.href)
                          ELSE NoUrl
           m == MirrorTargets(topic, row.hrefs)
       IN  Appended(ResultItem(RowTitle(row.title), m.mirror1, m.mirror2, details_url))

\* one turn of the loop over rows[1:]: urljoin raises on the href of the
\* title link, or the row is appended if it has a mirror or a details URL
ParseRow(topic, row) ==
  IF row.cells <= MaxDefinedIndex(topic) THEN Skipped("short")
  ELSE IF row.title.link /\ UrlparseRaises(row.title.href) THEN Skipped("raised")
  ELSE LET details_url == IF row.title.link THEN urljoin(SEARCH_URLS[topic], row.title.href)
                          ELSE NoUrl
           m == MirrorTargets(topic, row.hrefs)
           target_url_mirror1 == IF m.mirror1 = NoUrl /\ details_url # NoUrl THEN details_url
                                 ELSE m.mirror1
       IN  IF target_url_mirror1 # NoUrl \/ m.mirror2 # NoUrl
           THEN Appended(ResultItem(RowTitle(row.title), target_url_mirror1, m.mirror2,
                                    details_url))
           ELSE Skipped("no_links")

\* one run of the loop: the topic, the data rows, the rows read so far, results,
\* and as history what became of each row
SearchRun(topic, rows) ==
  [pc |-> "rows", search_topic |-> topic, rows |-> rows, row_index |-> 0,
   results |-> <<>>, fate |-> <<>>]
NoSearchRun ==
  [pc |-> "idle", search_topic |-> None, rows |-> <<>>, row_index |-> 0,
   results |-> <<>>, fate |-> <<>>]

\* slip: a row that is skipped ends the search without results
AfterRow_SkipIsFatal(run, fate) ==
  IF fate.kind = "item"
  THEN With(run, [row_index |-> run.row_index + 1, fate |-> Append(run.fate, fate),
                  results |-> Append(run.results, fate.item)])
  ELSE With(run, [pc |-> "done", row_index |-> run.row_index + 1,
                  fate |-> Append(run.fate, fate), results |-> <<>>])

\* the run after one more row: continue, or results.append(...)
AfterRow(run, fate) ==
  With(run, [row_index |-> run.row_index + 1, fate |-> Append(run.fate, fate),
             results |-> IF fate.kind = "item" THEN Append(run.results, fate.item)
                         ELSE run.results])

\* how a call of the Discord API ends: discord.NotFound is an HTTPException
DiscordOutcomes == {"ok", "NotFound", "HTTPException", "Exception"}
IsHTTPException(d) == d \in {"NotFound", "HTTPException"}

\* the pages of a mirror in a selection flow: no anchor, a GET anchor in an
\* h2 with a relative href, a GET anchor without href text, a search link
MirrorPages ==
  {<<>>,
   <<Anchor("Get", TRUE, FALSE, Url("", "", "/get.php?md5=ABC"))>>,
   <<Anchor("Get", TRUE, FALSE, Url("", "", ""))>>,
   <<Anchor("Mirror", FALSE, FALSE, Url("http", "libgen.rs", "/search.php?req=x"))>>}

\* what the fetch of a mirror page can come back with in a selection flow
MirrorOutcomes(u) ==
  {Outcome(e, NoPage) : e \in FetchErrors}
    \cup {Outcome(NoExc, Page(404, u, <<>>))}
    \cup {Outcome(NoExc, Page(200, f, a)) : f \in FinalUrls(u), a \in MirrorPages}

\* how download_book_to_discord ends its HEAD probe and its GET
HeadEnds == {"raised", "ok", "too_large"}
GetEnds == {"File", "TooLarge", "Failed"}

\* findbook_command of one user
NoCmd ==
  [pc |-> "idle", category |-> None, deferred |-> FALSE, response |-> NoSearchPage,
   results |-> <<>>, path |-> None, followups |-> <<>>, requests |-> <<>>,
   discord_failed |-> FALSE, raised |-> FALSE]

\* the view: the object's fields (disabled and placeholder of select_menu),
\* whether the library has stopped it, and what the client shows of the
\* message it is attached to; under_way is history: the flows that were
\* between their start and their end when the view timed out
View(exists, results, disabled, placeholder, timed_out, shown_disabled, content) ==
  [exists |-> exists, results |-> results, disabled |-> disabled,
   placeholder |-> placeholder, timed_out |-> timed_out,
   shown_disabled |-> shown_disabled, content |-> content, under_way |-> {}]
NoView == View(FALSE, <<>>, FALSE, None, FALSE, FALSE, None)

\* the last text of the status message on a failure
Explanation(kind, reason, link, offer) ==
  [kind |-> kind, reason |-> reason, link |-> link, offer |-> offer]
NoExplanation == Explanation(None, None, NoUrl, None)

\* select_callback of one user on one view
Flows == Users \X Users
NoFlow == <<None, None>>
IdleFlow ==
  [pc |-> "idle", accepted |-> FALSE, item |-> NoItem, status_message |-> None,
   explanation |-> NoExplanation, fetch_exc |-> None, page_status |-> 0,
   final_url |-> NoUrl, page |-> <<>>, parse_raised |-> FALSE,
   direct_download_link |-> NoUrl, sent_referer |-> NoUrl, sent_by |-> NoFlow,
   download_result |-> None, error_message |-> "unknown", requests |-> <<>>,
   resolve_calls |-> 0, download_calls |-> 0, messages |-> {}, discord_failed |-> FALSE,
   raised |-> FALSE, shown |-> {}]

\* ------------------------------------------------------------ state
VARIABLES
  pc,               \* where download_book_to_discord is: idle, head, get, peek, stream, done
  download_url,     \* argument
  title,            \* argument
  extension,        \* argument (the extension hint)
  filename_base,    \* local
  final_extension,  \* local
  head_failed,      \* local
  head_response,    \* local: the HEAD response, NoResp before it and when the request raised
  response,         \* local: the GET response, NoResp while there is none
  text_snippet,     \* local: the decoded prefix of an HTML body, None while there is none
  file_buffer,      \* local: io.BytesIO, its data and its position
  downloaded_size,  \* local
  limit_exceeded,   \* local
  result,           \* the returned value, NoResult before the return
  head_calls,       \* history: HEAD requests issued
  get_calls,        \* history: GET requests issued
  headers_read,     \* history: response.headers of the GET response was read
  peeked,           \* history: response.raw.peek was called
  chunks_read,      \* history: chunks taken from response.iter_content
  received,         \* history: the chunks iter_content yielded, in order
  stream_ended,     \* history: iter_content was read to its end
  raised,           \* history: the exceptions raised inside the function, with their place
  propagated,       \* history: an exception left the function
  rpc,              \* where get_libgen_download_link_async is: idle, fetch, sleep, done
  page_url,         \* argument
  mirror_host,      \* local
  page_response,    \* local: the response of the page fetch, NoPage while there is none
  referer,          \* http_session.headers['Referer'], NoUrl while the header is not set
  download_link_tag,  \* local
  pattern_used,     \* history: the pattern that set download_link_tag, 0 when none did
  parsed,           \* history: the parsing block ran to its end
  resolve_result,   \* the returned URL, NoUrl for None and before the return
  env,              \* environment: the users who invoke /findbook, whether calls of the
                    \* Discord API can fail, and the tables the search site serves
  cmd,              \* per invoking user: the run of findbook_command
  view,             \* per invoking user: the SearchResultSelectView of the results message
  flow,             \* per view and selecting user: the run of select_callback
  referer_by,       \* history: the flow whose resolve set the session's Referer last
  search            \* the loop of search_libgen_async over the rows of the results table

dvars ==
  <<pc, download_url, title, extension, filename_base, final_extension, head_failed,
    head_response, response, text_snippet, file_buffer, downloaded_size, limit_exceeded, result,
    head_calls, get_calls, headers_read, peeked, chunks_read, received, stream_ended,
    raised, propagated>>

rvars ==
  <<rpc, page_url, mirror_host, page_response, referer, download_link_tag, pattern_used,
    parsed, resolve_result>>

\* the resolver's own variables: rvars without the session's header
rlocals ==
  <<rpc, page_url, mirror_host, page_response, download_link_tag, pattern_used, parsed,
    resolve_result>>

bvars == <<env, cmd, view, flow, referer_by, search>>

vars == <<dvars, rvars, bvars>>

Buffer(data, pos) == [data |-> data, pos |-> pos]
\* what a reader of the buffer gets: the data from the position on
Readable(buf) == SubSeq(buf.data, buf.pos + 1, Len(buf.data))

Raised(site, exc) == [site |-> site, exc |-> exc]


\* nobody uses the bot
BotIdle ==
  /\ env = Env({}, FALSE, {})
  /\ cmd = [u \in Users |-> NoCmd]
  /\ view = [u \in Users |-> NoView]
  /\ flow = [f \in Flows |-> IdleFlow]
  /\ referer_by = NoFlow
  /\ search = NoSearchRun

\* ------------------------------------------------------------ download_book_to_discord
\* final_extension = extension.lower() if extension and extension != 'n/a' else 'bin'
InitialExtension(hint) == IF hint # "" /\ hint # "n/a" THEN Lower(hint) ELSE "bin"

valid_extensions == {"pdf", "epub", "mobi", "azw3", "djvu", "zip", "rar", "txt", "chm"}

type_map_keys ==
  {"application/pdf", "application/epub+zip", "application/x-mobipocket-ebook",
   "application/vnd.amazon.ebook", "image/vnd.djvu", "application/zip",
   "application/vnd.rar", "application/x-rar-compressed", "text/plain",
   "application/vnd.ms-htmlhelp"}

type_map(k) ==
  CASE k = "application/pdf" -> "pdf"
    [] k = "application/epub+zip" -> "epub"
    [] k = "application/x-mobipocket-ebook" -> "mobi"
    [] k = "application/vnd.amazon.ebook" -> "azw3"
    [] k = "image/vnd.djvu" -> "djvu"
    [] k = "application/zip" -> "zip"
    [] k \in {"application/vnd.rar", "application/x-rar-compressed"} -> "rar"
    [] k = "text/plain" -> "txt"
    [] OTHER -> "chm"

\* slip: the header's name is looked at only when the hint is unknown
HeaderName_UnknownHintOnly(base, ext, hint, cd) ==
  IF cd.present /\ cd.filename # <<>> /\ hint \in {"n/a", "bin"}
  THEN LET header_filename == MapUnquote(cd.filename)
           header_ext == Lower(SplitextExt(header_filename))
       IN  IF header_ext # ""
           THEN [base |-> safe_filename(SplitextBase(header_filename)), ext |-> header_ext]
           ELSE [base |-> base, ext |-> ext]
  ELSE [base |-> base, ext |-> ext]

\* the base name and extension after the Content-Disposition header is looked at
HeaderName(base, ext, hint, cd) ==
  IF cd.present /\ cd.filename # <<>>
  THEN LET header_filename == MapUnquote(cd.filename)
           header_base == SplitextBase(header_filename)
           header_ext == Lower(SplitextExt(header_filename))
       IN  IF header_ext \in valid_extensions
           THEN [base |-> safe_filename(header_base), ext |-> header_ext]
           ELSE IF hint \in {"n/a", "bin"} /\ header_ext # ""
           THEN [base |-> base, ext |-> header_ext]
           ELSE [base |-> base, ext |-> ext]
  ELSE [base |-> base, ext |-> ext]

\* slip: the path of the URL is looked at before the Content-Type
FallbackExtension_UrlFirst(ext, content_type, final_url) ==
  IF ext \in {"bin", "n/a"}
  THEN LET url_ext == Lower(SplitextExt(UrlPath(final_url)))
       IN  IF url_ext \in valid_extensions THEN url_ext
           ELSE IF ContentTypeBase(content_type) \in type_map_keys
           THEN type_map(ContentTypeBase(content_type))
           ELSE ext
  ELSE ext

\* the extension after the Content-Type and the URL path are looked at
FallbackExtension(ext, content_type, final_url) ==
  IF ext \in {"bin", "n/a"}
  THEN IF ContentTypeBase(content_type) \in type_map_keys
       THEN type_map(ContentTypeBase(content_type))
       ELSE LET url_ext == Lower(SplitextExt(UrlPath(final_url)))
            IN  IF url_ext \in valid_extensions THEN url_ext ELSE ext
  ELSE ext

\* filename = f"{filename_base}.{final_extension}"
Filename(base, ext) == base \o <<".", ext>>

\* the exception the HEAD block raises inside its try, NoExc when none
HeadRaises(o) ==
  IF o.exc # NoExc THEN o.exc
  ELSE IF o.resp.status >= 400 THEN HTTPError(o.resp.status)
  ELSE IF o.resp.content_length # None /\ ParseInt(o.resp.content_length) = -1 THEN ValueError
  ELSE NoExc

\* slip: the HEAD block catches request exceptions only
HeadExceptCatches_RequestOnly(e) == IsRequestException(e.cls)

\* except requests.exceptions.RequestException / except Exception of the HEAD block
HeadExceptCatches(e) == IsRequestException(e.cls) \/ TRUE

\* slip: the HEAD size test is off by one block
HeadTooLarge_OffByOne(resp) ==
  resp.content_length # None /\ ParseInt(resp.content_length) > DISCORD_FILE_LIMIT_BYTES + 1

\* content_length and int(content_length) > DISCORD_FILE_LIMIT_BYTES
HeadTooLarge(resp) ==
  resp.content_length # None /\ ParseInt(resp.content_length) > DISCORD_FILE_LIMIT_BYTES

\* slip: the client errors are left out of the fast-fail list
FastFail_GatewayOnly(status) == status \in {502, 503, 504}

\* response.status_code in [502, 503, 504, 404, 403]
FastFail(status) == status \in {502, 503, 504, 404, 403}

\* the except clauses of the function, first match first
OuterCatches(e) == IsTimeout(e.cls) \/ IsRequestException(e.cls) \/ TRUE

\* slip: the RequestException clause stands before the Timeout clause
OuterExcept_RequestFirst(e) ==
  IF IsRequestException(e.cls) THEN Text("ConnError", 0, e.status, None, e.msg)
  ELSE IF IsTimeout(e.cls) THEN Text("Timeout", 0, 0, None, e.msg)
  ELSE Text("Other", 0, 0, None, e.msg)

OuterExcept(e) ==
  IF IsTimeout(e.cls) THEN Text("Timeout", 0, 0, None, e.msg)
  ELSE IF IsRequestException(e.cls) THEN Text("ConnError", 0, e.status, None, e.msg)
  ELSE Text("Other", 0, 0, None, e.msg)

\* finally: if response and hasattr(response, 'close') and not response.raw.closed
Finally(resp) == IF Truthy(resp) /\ ~resp.closed THEN Close(resp) ELSE resp

\* slip: the '<form' marker is not looked for
IsCaptcha_NoForm(final_url, snippet) ==
  HasSciHub(final_url) /\ (SnippetHasCaptcha(snippet) \/ SnippetHasVerify(snippet))

\* the CAPTCHA test on the peeked prefix
IsCaptcha(final_url, snippet) ==
  HasSciHub(final_url)
    /\ (SnippetHasCaptcha(snippet) \/ SnippetHasVerify(snippet) \/ SnippetHasForm(snippet))

\* the GET response's Content-Length is unparsable where the code parses it
GetLengthRaises(hf, resp) ==
  ~hf /\ resp.content_length # None /\ ParseInt(resp.content_length) = -1

\* not head_failed and content_length_get and int(content_length_get) > DISCORD_FILE_LIMIT_BYTES
GetTooLarge(hf, resp) ==
  ~hf /\ resp.content_length # None /\ ParseInt(resp.content_length) > DISCORD_FILE_LIMIT_BYTES

\* slip: a body of exactly the cap counts as too large
LimitExceeded_AtCap(size) == size >= DISCORD_FILE_LIMIT_BYTES

\* downloaded_size > DISCORD_FILE_LIMIT_BYTES
LimitExceeded(size) == size > DISCORD_FILE_LIMIT_BYTES

\* file_buffer.write(chunk)
Write(buf, chunk) ==
  Buffer(SubSeq(buf.data, 1, buf.pos) \o chunk
           \o SubSeq(buf.data, buf.pos + Len(chunk) + 1, Len(buf.data)),
         buf.pos + Len(chunk))

\* file_buffer.seek(0)
Seek0(buf) == Buffer(buf.data, 0)

\* slip: the chunk is written before the running count is tested
BufferAfterChunk_WriteFirst(buf, chunk, size) == Write(buf, chunk)

\* the buffer after one non-empty chunk arrived with the running count at size
BufferAfterChunk(buf, chunk, size) == IF LimitExceeded(size) THEN buf ELSE Write(buf, chunk)

\* ways a step of the function ends: it goes on, it returns, it raises
Continue(next, resp, new) ==
  /\ pc' = next
  /\ response' = resp
  /\ raised' = raised \cup new
  /\ UNCHANGED <<result, propagated>>

Return(res, resp, new) ==
  /\ pc' = "done"
  /\ result' = res
  /\ response' = Finally(resp)
  /\ raised' = raised \cup new
  /\ UNCHANGED propagated

Raise(site, e, resp) ==
  /\ pc' = "done"
  /\ response' = Finally(resp)
  /\ raised' = raised \cup {Raised(site, e)}
  /\ IF OuterCatches(e)
     THEN result' = OuterExcept(e) /\ UNCHANGED propagated
     ELSE propagated' = TRUE /\ UNCHANGED result

args == <<download_url, title, extension>>

DownloadCall ==
  /\ pc = "idle"
  /\ IF download_url = ""
     THEN /\ Return(Text("NoUrl", 0, 0, None, None), response, {})
          /\ UNCHANGED <<filename_base, final_extension, head_calls>>
     ELSE /\ filename_base' = safe_filename(title)
          /\ final_extension' = InitialExtension(extension)
          /\ head_calls' = head_calls + 1
          /\ Continue("head", response, {})
  /\ UNCHANGED <<args, text_snippet, stream_ended, head_failed, head_response, file_buffer, downloaded_size,
                 limit_exceeded, get_calls, headers_read, peeked, chunks_read, received>>
  /\ UNCHANGED rvars
  /\ UNCHANGED bvars

HeadReturns ==
  /\ pc = "head"
  /\ \E o \in HeadOutcomes :
       LET e == HeadRaises(o)
       IN  /\ head_response' = o.resp
           /\ IF e # NoExc
              THEN IF HeadExceptCatches(e)
                   THEN /\ head_failed' = TRUE
                        /\ get_calls' = get_calls + 1
                        /\ Continue("get", response, {Raised("head", e)})
                   ELSE /\ Raise("head", e, response)
                        /\ UNCHANGED <<head_failed, get_calls>>
              ELSE IF HeadTooLarge(o.resp)
                   THEN /\ Return(Text("TooLarge", ParseInt(o.resp.content_length), 0, None, None),
                                  response, {})
                        /\ UNCHANGED <<head_failed, get_calls>>
                   ELSE /\ get_calls' = get_calls + 1
                        /\ Continue("get", response, {})
                        /\ UNCHANGED head_failed
  /\ UNCHANGED <<args, text_snippet, stream_ended, filename_base, final_extension, file_buffer, downloaded_size,
                 limit_exceeded, head_calls, headers_read, peeked, chunks_read, received>>
  /\ UNCHANGED rvars
  /\ UNCHANGED bvars

GetReturns ==
  /\ pc = "get"
  /\ \E o \in GetOutcomes :
       LET r == o.resp
           passed == o.exc = NoExc /\ ~FastFail(r.status) /\ r.status < 400
           named == passed /\ ~IsHtml(r.content_type)
           name == HeaderName(filename_base, final_extension, extension, r.content_disposition)
       IN  /\ headers_read' = passed
           /\ peeked' = (passed /\ IsHtml(r.content_type))
           /\ filename_base' = IF named THEN name.base ELSE filename_base
           /\ final_extension' =
                IF named THEN FallbackExtension(name.ext, r.content_type, r.url)
                ELSE final_extension
           /\ IF o.exc # NoExc THEN Raise("get", o.exc, response)
              ELSE IF FastFail(r.status)
              THEN Return(Text("ServerError", 0, r.status, None, None), r, {})
              ELSE IF r.status >= 400 THEN Raise("get", HTTPError(r.status), r)
              ELSE IF IsHtml(r.content_type) THEN Continue("peek", r, {})
              ELSE IF GetLengthRaises(head_failed, r) THEN Raise("get", ValueError, r)
              ELSE IF GetTooLarge(head_failed, r)
              THEN Return(Text("TooLarge", ParseInt(r.content_length), 0, None, None),
                          Close(r), {})
              ELSE Continue("stream", r, {})
  /\ UNCHANGED <<args, text_snippet, stream_ended, head_failed, head_response, file_buffer, downloaded_size,
                 limit_exceeded, head_calls, get_calls, chunks_read, received>>
  /\ UNCHANGED rvars
  /\ UNCHANGED bvars

PeekReturns ==
  /\ pc = "peek"
  /\ \E o \in PeekOutcomes :
       LET new == IF o.exc # NoExc THEN {Raised("peek", o.exc)} ELSE {}
       IN  /\ text_snippet' = IF o.exc = NoExc THEN o.snippet ELSE text_snippet
           /\ IF o.exc = NoExc /\ IsCaptcha(response.url, o.snippet)
              THEN Return(Text("CaptchaBlocked", 0, 0, response.url, None), Close(response), new)
              ELSE Return(Text("HtmlPoisoned", 0, 0, response.url, None), Close(response), new)
  /\ UNCHANGED <<args, stream_ended, filename_base, final_extension, head_failed, head_response,
                 file_buffer, downloaded_size, limit_exceeded, head_calls, get_calls,
                 headers_read, peeked, chunks_read, received>>
  /\ UNCHANGED rvars
  /\ UNCHANGED bvars

\* one turn of: for chunk in response.iter_content(...)
StreamChunk ==
  /\ pc = "stream"
  /\ chunks_read < MaxChunks
  /\ \E k \in 0..MaxChunk :
       LET chunk == [i \in 1..k |-> downloaded_size + i]
           size == downloaded_size + k
       IN  /\ chunks_read' = chunks_read + 1
           /\ received' = Append(received, chunk)
           /\ downloaded_size' = size
           /\ IF k = 0
              THEN /\ Continue("stream", response, {})
                   /\ UNCHANGED <<file_buffer, limit_exceeded>>
              ELSE /\ limit_exceeded' = LimitExceeded(size)
                   /\ file_buffer' = BufferAfterChunk(file_buffer, chunk, size)
                   /\ IF LimitExceeded(size)
                      THEN Return(Text("TooLarge", size, 0, None, None), Close(response), {})
                      ELSE Continue("stream", response, {})
  /\ UNCHANGED <<args, text_snippet, stream_ended, filename_base, final_extension, head_failed, head_response,
                 head_calls, get_calls, headers_read, peeked>>
  /\ UNCHANGED rvars
  /\ UNCHANGED bvars

\* the body ended: the loop is left without a break.  A body read to its end
\* may have closed the connection by itself.
StreamEnd ==
  /\ pc = "stream"
  /\ \E auto \in BOOLEAN :
       /\ stream_ended' = TRUE
       /\ file_buffer' = Seek0(file_buffer)
       /\ Return(File(Readable(file_buffer'), Filename(filename_base, final_extension)),
                 IF auto THEN Close(response) ELSE response, {})
  /\ UNCHANGED <<args, text_snippet, filename_base, final_extension, head_failed, head_response,
                 downloaded_size, limit_exceeded, head_calls, get_calls, headers_read,
                 peeked, chunks_read, received>>
  /\ UNCHANGED rvars
  /\ UNCHANGED bvars

\* reading the body raises
StreamError ==
  /\ pc = "stream"
  /\ \E e \in StreamErrors : Raise("stream", e, response)
  /\ UNCHANGED <<args, text_snippet, stream_ended, filename_base, final_extension, head_failed, head_response,
                 file_buffer, downloaded_size, limit_exceeded, head_calls, get_calls,
                 headers_read, peeked, chunks_read, received>>
  /\ UNCHANGED rvars
  /\ UNCHANGED bvars

Init ==
  /\ pc = "idle"
  /\ download_url \in RequestUrls
  /\ title \in Titles
  /\ extension \in Hints
  /\ filename_base = <<>>
  /\ final_extension = ""
  /\ head_failed = FALSE
  /\ head_response = NoResp
  /\ response = NoResp
  /\ text_snippet = None
  /\ file_buffer = Buffer(<<>>, 0)
  /\ downloaded_size = 0
  /\ limit_exceeded = FALSE
  /\ result = NoResult
  /\ head_calls = 0
  /\ get_calls = 0
  /\ headers_read = FALSE
  /\ peeked = FALSE
  /\ chunks_read = 0
  /\ received = <<>>
  /\ stream_ended = FALSE
  /\ raised = {}
  /\ propagated = FALSE
  /\ rpc = "idle"
  /\ page_url = Url("", "", "")
  /\ mirror_host = ""
  /\ page_response = NoPage
  /\ referer = NoUrl
  /\ download_link_tag = NoTag
  /\ pattern_used = 0
  /\ parsed = FALSE
  /\ resolve_result = NoUrl
  /\ BotIdle

Next ==
  \/ DownloadCall
  \/ HeadReturns
  \/ GetReturns
  \/ PeekReturns
  \/ StreamChunk
  \/ StreamEnd
  \/ StreamError

Spec == Init /\ [][Next]_vars


\* ------------------------------------------------------------ the file name of a download
\* the hints of the rows of a search, file names of the Content-Disposition
\* header and Content-Type values the naming is applied to
NameHints == Hints \cup {"epub", "exe"}
NameDispositions ==
  ContentDispositions
    \cup {ContentDisposition(TRUE, f) : f \in {<<"b", ".", "bin">>, <<"b">>, <<"b", ".", "PDF">>}}
NameContentTypes ==
  {"", "application/pdf", "application/octet-stream", "application/epub+zip; charset=binary"}

\* the naming of the file, from the arguments and the GET response: the first
\* name, the Content-Disposition header, the Content-Type and the URL
NameResolved ==
  /\ pc = "naming"
  /\ LET name == HeaderName(safe_filename(title), InitialExtension(extension), extension,
                            response.content_disposition)
     IN  /\ filename_base' = name.base
         /\ final_extension' = FallbackExtension(name.ext, response.content_type, response.url)
  /\ pc' = "named"
  /\ UNCHANGED <<download_url, title, extension, head_failed, head_response, response,
                 text_snippet, file_buffer, downloaded_size, limit_exceeded, result,
                 head_calls, get_calls, headers_read, peeked, chunks_read, received,
                 stream_ended, raised, propagated>>
  /\ UNCHANGED rvars
  /\ UNCHANGED bvars

InitName ==
  /\ pc = "naming"
  /\ download_url = "http://h/get.php"
  /\ title \in Titles
  /\ extension \in NameHints
  /\ filename_base = <<>>
  /\ final_extension = ""
  /\ head_failed = FALSE
  /\ head_response = NoResp
  /\ response \in {Resp(200, ct, None, cd, u) :
                      ct \in NameContentTypes, cd \in NameDispositions, u \in DownloadUrls}
  /\ text_snippet = None
  /\ file_buffer = Buffer(<<>>, 0)
  /\ downloaded_size = 0
  /\ limit_exceeded = FALSE
  /\ result = NoResult
  /\ head_calls = 1
  /\ get_calls = 1
  /\ headers_read = TRUE
  /\ peeked = FALSE
  /\ chunks_read = 0
  /\ received = <<>>
  /\ stream_ended = FALSE
  /\ raised = {}
  /\ propagated = FALSE
  /\ rpc = "idle"
  /\ page_url = Url("", "", "")
  /\ mirror_host = ""
  /\ page_response = NoPage
  /\ referer = NoUrl
  /\ download_link_tag = NoTag
  /\ pattern_used = 0
  /\ parsed = FALSE
  /\ resolve_result = NoUrl
  /\ BotIdle

NextName == NameResolved

SpecName == InitName /\ [][NextName]_vars


\* ------------------------------------------------------------ get_libgen_download_link_async
EmptyHref == Url("", "", "")

\* slip: the href is joined to the URL that was asked for
Extracted_AgainstRequested(tag, final_url, requested) ==
  IF tag.found /\ tag.href # EmptyHref THEN urljoin(requested, tag.href)
  ELSE IF EndsWithDocumentExtension(requested) THEN requested
  ELSE NoUrl

\* what the parsing block returns once download_link_tag is tag
Extracted(tag, final_url, requested) ==
  IF tag.found /\ tag.href # EmptyHref THEN urljoin(final_url, tag.href)
  ELSE IF EndsWithDocumentExtension(requested) THEN requested
  ELSE NoUrl

ResolveCall ==
  /\ rpc = "idle"
  /\ IF ~StartsWithHttp(page_url) \/ UrlparseRaises(page_url)
     THEN rpc' = "done" /\ UNCHANGED mirror_host
     ELSE rpc' = "fetch" /\ mirror_host' = page_url.host
  /\ UNCHANGED <<page_url, page_response, referer, download_link_tag, pattern_used,
                 parsed, resolve_result>>
  /\ UNCHANGED dvars
  /\ UNCHANGED bvars

ResolveFetched ==
  /\ rpc = "fetch"
  /\ \E o \in FetchOutcomes(page_url) :
       /\ page_response' = o.resp
       /\ IF o.exc # NoExc \/ o.resp.status >= 400
          THEN rpc' = "done" /\ UNCHANGED referer
          ELSE rpc' = "sleep" /\ referer' = o.resp.url
  /\ UNCHANGED <<page_url, mirror_host, download_link_tag, pattern_used, parsed,
                 resolve_result>>
  /\ UNCHANGED dvars
  /\ UNCHANGED bvars

\* the parsing block, after the sleep; parsing may raise
ResolveParse ==
  /\ rpc = "sleep"
  /\ \E parse_raises \in BOOLEAN :
       LET k == Cascade(page_response.anchors, mirror_host)
           tag == IF k = 0 THEN NoTag ELSE PatternTag(k, page_response.anchors, mirror_host)
       IN  IF parse_raises
           THEN UNCHANGED <<download_link_tag, pattern_used, parsed, resolve_result>>
           ELSE /\ pattern_used' = k
                /\ download_link_tag' = tag
                /\ parsed' = TRUE
                /\ resolve_result' = Extracted(tag, page_response.url, page_url)
  /\ rpc' = "done"
  /\ UNCHANGED <<page_url, mirror_host, page_response, referer>>
  /\ UNCHANGED dvars
  /\ UNCHANGED bvars

InitResolve ==
  /\ pc = "idle"
  /\ download_url = ""
  /\ title = <<>>
  /\ extension = ""
  /\ filename_base = <<>>
  /\ final_extension = ""
  /\ head_failed = FALSE
  /\ head_response = NoResp
  /\ response = NoResp
  /\ text_snippet = None
  /\ file_buffer = Buffer(<<>>, 0)
  /\ downloaded_size = 0
  /\ limit_exceeded = FALSE
  /\ result = NoResult
  /\ head_calls = 0
  /\ get_calls = 0
  /\ headers_read = FALSE
  /\ peeked = FALSE
  /\ chunks_read = 0
  /\ received = <<>>
  /\ stream_ended = FALSE
  /\ raised = {}
  /\ propagated = FALSE
  /\ rpc = "idle"
  /\ page_url \in PageUrls
  /\ mirror_host = ""
  /\ page_response = NoPage
  /\ referer = NoUrl
  /\ download_link_tag = NoTag
  /\ pattern_used = 0
  /\ parsed = FALSE
  /\ resolve_result = NoUrl
  /\ BotIdle

NextResolve ==
  \/ ResolveCall
  \/ ResolveFetched
  \/ ResolveParse

SpecResolve == InitResolve /\ [][NextResolve]_vars

\* ------------------------------------------------------------ findbook_command
\* how a call of the Discord API can end in this run
Ends == IF env.faults THEN DiscordOutcomes ELSE {"ok"}

\* neither function of the session is running on its own
FunctionsIdle ==
  /\ pc = "idle"
  /\ download_url = ""
  /\ title = <<>>
  /\ extension = ""
  /\ filename_base = <<>>
  /\ final_extension = ""
  /\ head_failed = FALSE
  /\ head_response = NoResp
  /\ response = NoResp
  /\ text_snippet = None
  /\ file_buffer = Buffer(<<>>, 0)
  /\ downloaded_size = 0
  /\ limit_exceeded = FALSE
  /\ result = NoResult
  /\ head_calls = 0
  /\ get_calls = 0
  /\ headers_read = FALSE
  /\ peeked = FALSE
  /\ chunks_read = 0
  /\ received = <<>>
  /\ stream_ended = FALSE
  /\ raised = {}
  /\ propagated = FALSE
  /\ rpc = "idle"
  /\ page_url = Url("", "", "")
  /\ mirror_host = ""
  /\ page_response = NoPage
  /\ download_link_tag = NoTag
  /\ pattern_used = 0
  /\ parsed = FALSE
  /\ resolve_result = NoUrl

\* what a step of the bot leaves alone
BotFrame == UNCHANGED <<dvars, rlocals, env, search>>

\* the command is invoked: defer, then the magazine link or the search request
FindbookInvoke(u) ==
  /\ u \in env.invokers
  /\ cmd[u].pc = "idle"
  /\ \E category \in Categories, d \in Ends, d2 \in Ends :
       cmd' = [cmd EXCEPT ![u] =
                 IF d = "ok"
                 THEN IF category = "magz"
                      THEN With(@, [pc |-> "magz", category |-> category, deferred |-> TRUE])
                      ELSE With(@, [pc |-> "search", category |-> category, deferred |-> TRUE,
                                    requests |-> <<Request("GET", SEARCH_URLS[category],
                                                           BaseReferer)>>])
                 ELSE IF d = "NotFound"
                 THEN With(@, [pc |-> "done", category |-> category, discord_failed |-> TRUE])
                 ELSE With(@, [pc |-> "done", category |-> category, discord_failed |-> TRUE,
                               followups |-> IF d2 = "ok" THEN <<"start_error">> ELSE <<>>])]
  /\ UNCHANGED <<view, flow, referer, referer_by>>
  /\ BotFrame

\* the magazine link was sent, or it failed and the apology is sent
FindbookMagz(u) ==
  /\ cmd[u].pc = "magz"
  /\ \E d \in Ends, d2 \in Ends :
       cmd' = [cmd EXCEPT ![u] =
                 IF d = "ok" THEN With(@, [pc |-> "done", followups |-> <<"magz_link">>])
                 ELSE IF d2 = "ok"
                 THEN With(@, [pc |-> "done", followups |-> <<"magz_failed">>,
                               discord_failed |-> TRUE])
                 ELSE With(@, [pc |-> "done", discord_failed |-> TRUE, raised |-> TRUE])]
  /\ UNCHANGED <<view, flow, referer, referer_by>>
  /\ BotFrame

\* the search request comes back: search_libgen_async returns at once on a
\* failure, and sleeps before it parses otherwise
SearchReturned(u) ==
  /\ cmd[u].pc = "search"
  /\ \E o \in SearchOutcomes(env.catalog) :
       cmd' = [cmd EXCEPT ![u] =
                 IF SearchPath(o) \in {"transport", "status"}
                 THEN With(@, [pc |-> "send", results |-> search_libgen_async(o),
                               path |-> SearchPath(o)])
                 ELSE With(@, [pc |-> "sleep", response |-> o.resp])]
  /\ UNCHANGED <<view, flow, referer, referer_by>>
  /\ BotFrame

\* after the sleep the page is parsed and the answer is being sent
SearchParsed(u) ==
  /\ cmd[u].pc = "sleep"
  /\ LET o == Outcome(NoExc, cmd[u].response)
     IN  cmd' = [cmd EXCEPT ![u] =
                   With(@, [pc |-> "send", results |-> search_libgen_async(o),
                            path |-> SearchPath(o), response |-> NoSearchPage])]
  /\ UNCHANGED <<view, flow, referer, referer_by>>
  /\ BotFrame

\* slip: an empty result ends the command without a message
FindbookResponded_SilentOnEmpty(u) ==
  /\ cmd[u].pc = "send"
  /\ IF cmd[u].results = <<>>
     THEN /\ cmd' = [cmd EXCEPT ![u] = With(@, [pc |-> "done"])]
          /\ UNCHANGED view
     ELSE /\ cmd' = [cmd EXCEPT ![u] = With(@, [pc |-> "done", followups |-> <<"results">>])]
          /\ view' = [view EXCEPT ![u] =
                        View(TRUE, cmd[u].results, FALSE, "select", FALSE, FALSE, "results")]
  /\ UNCHANGED <<flow, referer, referer_by>>
  /\ BotFrame

\* the answer was sent: the no-results text, or the results with their view,
\* or the text that the results could not be shown
FindbookResponded(u) ==
  /\ cmd[u].pc = "send"
  /\ \E d \in Ends, d2 \in Ends :
       IF cmd[u].results = <<>>
       THEN /\ cmd' = [cmd EXCEPT ![u] =
                         With(@, [pc |-> "done",
                                  followups |-> IF d = "ok" THEN <<"no_results">> ELSE <<>>,
                                  discord_failed |-> d # "ok"])]
            /\ UNCHANGED view
       ELSE IF d = "ok"
       THEN /\ cmd' = [cmd EXCEPT ![u] = With(@, [pc |-> "done", followups |-> <<"results">>])]
            /\ view' = [view EXCEPT ![u] =
                          View(TRUE, cmd[u].results, FALSE, "select", FALSE, FALSE, "results")]
       ELSE /\ cmd' = [cmd EXCEPT ![u] =
                         With(@, [pc |-> "done", discord_failed |-> TRUE,
                                  followups |-> IF d2 = "ok" THEN <<"display_error">> ELSE <<>>])]
            /\ UNCHANGED view
  /\ UNCHANGED <<flow, referer, referer_by>>
  /\ BotFrame

\* ------------------------------------------------------------ SearchResultSelectView
\* the flow of user u on the view of user v
Of(v, u) == <<v, u>>

\* slip: anybody may select
MaySelect_Anybody(v, u) == TRUE

\* interaction.user == self.original_interaction.user
MaySelect(v, u) == u = v

\* the library hands a selection to the view while the view is not stopped,
\* and the client offers the menu while it does not show it disabled
Dispatched(v) == view[v].exists /\ ~view[v].timed_out /\ ~view[v].shown_disabled

\* a user selects: the refusal; or the menu is disabled and the message of
\* the view is edited
SelectCallback(v, u) ==
  /\ Dispatched(v)
  /\ flow[Of(v, u)].pc = "idle"
  /\ IF ~MaySelect(v, u)
     THEN /\ \E d \in Ends :
               flow' = [flow EXCEPT ![Of(v, u)] =
                          IF d = "ok" THEN With(@, [pc |-> "done", messages |-> {"refusal"}])
                          ELSE With(@, [pc |-> "done", discord_failed |-> TRUE,
                                        raised |-> TRUE])]
          /\ UNCHANGED view
     ELSE \E expired \in BOOLEAN, i \in 1..Len(view[v].results), d \in Ends :
            IF expired
            THEN /\ flow' = [flow EXCEPT ![Of(v, u)] = With(@, [pc |-> "done"])]
                 /\ UNCHANGED view
            ELSE /\ flow' = [flow EXCEPT ![Of(v, u)] =
                               With(@, [pc |-> IF d = "NotFound" THEN "done"
                                               ELSE IF d = "Exception" THEN "done"
                                               ELSE "status",
                                        raised |-> d = "Exception",
                                        discord_failed |-> d # "ok",
                                        accepted |-> TRUE,
                                        item |-> view[v].results[i]])]
                 /\ view' = [view EXCEPT ![v] =
                               With(@, [disabled |-> TRUE, placeholder |-> "processing",
                                        shown_disabled |-> d = "ok"])]
  /\ UNCHANGED <<cmd, referer, referer_by>>
  /\ BotFrame

\* the Referer of the page request: the session's, or the base URL
PageReferer(session_referer) ==
  IF session_referer = NoUrl THEN BaseReferer ELSE session_referer

\* the status message was sent; then the resolver is called with the first
\* mirror of the item and issues its request, unless it rejects the URL
StatusSent(f) ==
  /\ flow[f].pc = "status"
  /\ \E d \in Ends, d2 \in Ends :
       LET m1 == flow[f].item.mirror1_url
       IN  IF d = "ok"
           THEN /\ flow' = [flow EXCEPT ![f] =
                              IF m1 = NoUrl
                              THEN With(@, [pc |-> "report", status_message |-> "attempting",
                                            error_message |-> "no_mirror1"])
                              ELSE IF ~StartsWithHttp(m1) \/ UrlparseRaises(m1)
                              THEN With(@, [pc |-> "report", status_message |-> "attempting",
                                            resolve_calls |-> @.resolve_calls + 1,
                                            error_message |-> "no_link"])
                              ELSE With(@, [pc |-> "fetch", status_message |-> "attempting",
                                            resolve_calls |-> @.resolve_calls + 1,
                                            requests |-> Append(@.requests,
                                              Request("GET", m1, PageReferer(referer)))])]
                /\ UNCHANGED view
           ELSE IF d = "NotFound"
           THEN /\ flow' = [flow EXCEPT ![f] = With(@, [pc |-> "done", discord_failed |-> TRUE])]
                /\ UNCHANGED view
           ELSE /\ flow' = [flow EXCEPT ![f] = With(@, [pc |-> "done", discord_failed |-> TRUE])]
                /\ view' = [view EXCEPT ![f[1]] =
                              IF d2 = "ok"
                              THEN With(@, [content |-> "start_error",
                                            shown_disabled |-> @.disabled])
                              ELSE @]
  /\ UNCHANGED <<cmd, referer, referer_by>>
  /\ BotFrame

\* slip: the session's Referer is set before the status of the page is tested
RefererAfterFetch_Always(old, o) == IF o.exc = NoExc THEN o.resp.url ELSE old

\* http_session.headers['Referer'] after the fetch of the page
RefererAfterFetch(old, o) ==
  IF o.exc # NoExc \/ o.resp.status >= 400 THEN old ELSE o.resp.url

\* slip: only an exception of the request ends the resolver
FetchFailed_TransportOnly(o) == o.exc # NoExc

\* the request raised, or raise_for_status did
FetchFailed(o) == o.exc # NoExc \/ o.resp.status >= 400

\* the page request comes back: on success the session's Referer is set and
\* the resolver sleeps
PageFetched(f) ==
  /\ flow[f].pc = "fetch"
  /\ \E o \in MirrorOutcomes(flow[f].item.mirror1_url) :
       /\ referer' = RefererAfterFetch(referer, o)
       /\ IF FetchFailed(o)
          THEN /\ flow' = [flow EXCEPT ![f] =
                             With(@, [pc |-> "report", error_message |-> "no_link",
                                      fetch_exc |-> o.exc.cls, page_status |-> o.resp.status])]
               /\ UNCHANGED referer_by
          ELSE /\ flow' = [flow EXCEPT ![f] =
                             With(@, [pc |-> "sleep", final_url |-> o.resp.url,
                                      page |-> o.resp.anchors, page_status |-> o.resp.status])]
               /\ referer_by' = f
  /\ UNCHANGED <<cmd, view>>
  /\ BotFrame

\* slip: the download takes the URL its own flow resolved as Referer
DownloadHeaders_OwnPage(session_referer, own_final_url) == own_final_url

\* current_headers = http_session.headers.copy(): the Referer of the download
DownloadHeaders(session_referer, own_final_url) == session_referer

\* the resolver wakes up, parses the page and returns; with a link the
\* download is called, copies the headers and issues its HEAD request
ResolveReturned(f) ==
  /\ flow[f].pc = "sleep"
  /\ \E parse_raises \in BOOLEAN :
       LET m1 == flow[f].item.mirror1_url
           k == Cascade(flow[f].page, m1.host)
           tag == IF k = 0 THEN NoTag ELSE PatternTag(k, flow[f].page, m1.host)
           link == IF parse_raises THEN NoUrl ELSE Extracted(tag, flow[f].final_url, m1)
           ref == DownloadHeaders(referer, flow[f].final_url)
       IN  flow' = [flow EXCEPT ![f] =
                      IF link = NoUrl
                      THEN With(@, [pc |-> "report", error_message |-> "no_link",
                                    parse_raised |-> parse_raises])
                      ELSE With(@, [pc |-> "head", direct_download_link |-> link,
                                    download_calls |-> @.download_calls + 1,
                                    sent_referer |-> ref, sent_by |-> referer_by,
                                    requests |-> Append(@.requests,
                                                        Request("HEAD", link, ref))])]
  /\ UNCHANGED <<cmd, view, referer, referer_by>>
  /\ BotFrame

\* the HEAD request comes back: too large, or the GET request is issued
HeadReturned(f) ==
  /\ flow[f].pc = "head"
  /\ \E h \in HeadEnds :
       flow' = [flow EXCEPT ![f] =
                  IF h = "too_large"
                  THEN With(@, [pc |-> "report", download_result |-> "TooLarge"])
                  ELSE With(@, [pc |-> "get",
                                requests |-> Append(@.requests,
                                  Request("GET", @.direct_download_link, @.sent_referer))])]
  /\ UNCHANGED <<cmd, view, referer, referer_by>>
  /\ BotFrame

\* the GET request comes back and the body is streamed: the download returns
GetReturned(f) ==
  /\ flow[f].pc = "get"
  /\ \E g \in GetEnds :
       flow' = [flow EXCEPT ![f] = With(@, [pc |-> "report", download_result |-> g])]
  /\ UNCHANGED <<cmd, view, referer, referer_by>>
  /\ BotFrame

\* error_message once the download has returned
ErrorMessage(fl) ==
  IF fl.download_result \in {"TooLarge", "Failed"} THEN fl.download_result
  ELSE fl.error_message

\* final_error_message
FinalErrorMessage(fl) ==
  LET item == fl.item
  IN  IF ErrorMessage(fl) = "TooLarge"
      THEN Explanation("too_large", ErrorMessage(fl), fl.direct_download_link,
                       IF item.mirror2_url # NoUrl THEN "mirror2" ELSE "none")
      ELSE Explanation("mirror1_failed", ErrorMessage(fl), NoUrl,
                       IF item.mirror2_url # NoUrl THEN "mirror2"
                       ELSE IF item.details_url # NoUrl /\ item.details_url # item.mirror1_url
                       THEN "details"
                       ELSE "none")

\* content=final_error_message[:2000]
CONTENT_LIMIT == 2000

\* len(url): the URLs of the model have 40 characters, the long one more
\* than a message holds
UrlLength(u) == IF u.path = "/long.epub" THEN CONTENT_LIMIT + 40 ELSE 40

\* len(error_message): the text of an HTML page met for a failed download,
\* the size for a file too large
ReasonLength(fl) ==
  CASE ErrorMessage(fl) = "TooLarge" -> 8
    [] ErrorMessage(fl) = "Failed" -> 82 + UrlLength(fl.direct_download_link)
    [] ErrorMessage(fl) = "no_link" -> 56
    [] ErrorMessage(fl) = "no_mirror1" -> 49
    [] OTHER -> 31

\* the pieces final_error_message is put together of, in their order, each
\* with its length
Piece(part, len) == [part |-> part, len |-> len]
Pieces(fl) ==
  LET e == FinalErrorMessage(fl)
  IN  IF e.kind = "too_large"
      THEN <<Piece("headline", 53 + ReasonLength(fl)),
             IF e.link # NoUrl THEN Piece("link", 57 + UrlLength(e.link))
             ELSE Piece("no_link", 45)>>
             \o (IF e.offer = "mirror2"
                 THEN <<Piece("mirror2", 67 + UrlLength(fl.item.mirror2_url))>> ELSE <<>>)
      ELSE <<Piece("headline", 33 + ReasonLength(fl)),
             CASE e.offer = "mirror2" -> Piece("mirror2", 95 + UrlLength(fl.item.mirror2_url))
               [] e.offer = "details" -> Piece("details", 52 + UrlLength(fl.item.details_url))
               [] OTHER -> Piece("none", 53)>>

\* where the i-th piece ends in the text
RECURSIVE EndOf(_, _)
EndOf(pieces, i) == IF i = 0 THEN 0 ELSE pieces[i].len + EndOf(pieces, i - 1)

\* the pieces that final_error_message[:2000] holds whole
Shown(fl) ==
  {Pieces(fl)[i].part : i \in {j \in 1..Len(Pieces(fl)) : EndOf(Pieces(fl), j) <= CONTENT_LIMIT}}

\* slip: after a failure the second mirror of the item is tried
Reported_RetriesMirror2(f) ==
  /\ flow[f].pc = "report"
  /\ flow' = [flow EXCEPT ![f] =
                IF @.download_result # "File" /\ @.item.mirror2_url # NoUrl
                   /\ @.resolve_calls < 2
                THEN With(@, [pc |-> "fetch", resolve_calls |-> @.resolve_calls + 1,
                              requests |-> Append(@.requests,
                                Request("GET", @.item.mirror2_url, PageReferer(referer)))])
                ELSE With(@, [pc |-> "done", status_message |-> "explanation",
                              explanation |-> FinalErrorMessage(@), shown |-> Shown(@)])]
  /\ UNCHANGED <<cmd, view, referer, referer_by>>
  /\ BotFrame

\* the status message is edited with the result: the file, with a second
\* message and an apology as fallbacks, or the explanation of the failure
Reported(f) ==
  /\ flow[f].pc = "report"
  /\ \E d \in Ends :
       IF flow[f].download_result # "File"
       THEN flow' = [flow EXCEPT ![f] =
                       IF d = "ok"
                       THEN With(@, [pc |-> "done", status_message |-> "explanation",
                                     error_message |-> ErrorMessage(@),
                                     explanation |-> FinalErrorMessage(@),
                                     shown |-> Shown(@)])
                       ELSE With(@, [pc |-> "done", error_message |-> ErrorMessage(@),
                                     discord_failed |-> TRUE])]
       ELSE IF d = "ok"
       THEN flow' = [flow EXCEPT ![f] = With(@, [pc |-> "done", status_message |-> "file"])]
       ELSE IF ~IsHTTPException(d)
       THEN \E d3 \in Ends :
              flow' = [flow EXCEPT ![f] =
                         IF d3 = "ok" THEN With(@, [pc |-> "done", status_message |-> "send_error",
                                              discord_failed |-> TRUE])
                         ELSE With(@, [pc |-> "done", discord_failed |-> TRUE, raised |-> TRUE])]
       ELSE \E d2 \in Ends :
              IF d2 = "ok"
              THEN flow' = [flow EXCEPT ![f] = With(@, [pc |-> "done", messages |-> {"file"},
                                                  discord_failed |-> TRUE])]
              ELSE IF ~IsHTTPException(d2)
              THEN \E d3 \in Ends :
                     flow' = [flow EXCEPT ![f] =
                                IF d3 = "ok"
                                THEN With(@, [pc |-> "done", status_message |-> "send_error",
                                              discord_failed |-> TRUE])
                                ELSE With(@, [pc |-> "done", discord_failed |-> TRUE, raised |-> TRUE])]
              ELSE \E d3 \in Ends :
                     IF d3 # "ok"
                     THEN flow' = [flow EXCEPT ![f] = With(@, [pc |-> "done", discord_failed |-> TRUE, raised |-> TRUE])]
                     ELSE IF flow[f].item.mirror2_url = NoUrl
                     THEN flow' = [flow EXCEPT ![f] =
                                     With(@, [pc |-> "done", status_message |-> "not_sent",
                                              discord_failed |-> TRUE])]
                     ELSE \E d4 \in Ends :
                            flow' = [flow EXCEPT ![f] =
                                       With(@, [pc |-> "done", status_message |-> "not_sent",
                                                discord_failed |-> TRUE,
                                                messages |-> IF d4 = "ok" THEN {"mirror2"} ELSE {},
                                                raised |-> d4 # "ok"])]
  /\ UNCHANGED <<cmd, view, referer, referer_by>>
  /\ BotFrame

\* the flows on the view of v that have started and not ended
UnderWay(v) == {f \in Flows : f[1] = v /\ flow[f].pc \notin {"idle", "done"}}

\* slip: the timeout ends the selections of the view that are under way
ViewTimeout_Cancels(v) ==
  /\ view[v].exists
  /\ ~view[v].timed_out
  /\ view' = [view EXCEPT ![v] = With(@, [timed_out |-> TRUE, disabled |-> TRUE,
                                          under_way |-> UnderWay(v)])]
  /\ flow' = [f \in Flows |->
                IF f[1] = v /\ flow[f].pc \notin {"idle", "done"}
                THEN With(flow[f], [pc |-> "done"]) ELSE flow[f]]
  /\ UNCHANGED <<cmd, referer, referer_by>>
  /\ BotFrame

\* slip: on its timeout the view lets go of its results
ViewTimeout_DropsResults(v) ==
  /\ view[v].exists
  /\ ~view[v].timed_out
  /\ view' = [view EXCEPT ![v] = With(@, [timed_out |-> TRUE, disabled |-> TRUE,
                                          results |-> <<>>, under_way |-> UnderWay(v)])]
  /\ UNCHANGED <<cmd, flow, referer, referer_by>>
  /\ BotFrame

\* on_timeout: the library has stopped the view; the items are disabled and
\* the message is edited unless the interaction of the command has expired
ViewTimeout(v) ==
  /\ view[v].exists
  /\ ~view[v].timed_out
  /\ \E expired \in BOOLEAN, d \in Ends :
       view' = [view EXCEPT ![v] =
                  IF expired THEN With(@, [timed_out |-> TRUE, under_way |-> UnderWay(v)])
                  ELSE IF d = "ok"
                  THEN With(@, [timed_out |-> TRUE, disabled |-> TRUE,
                                placeholder |-> "timed_out", content |-> "timed_out",
                                shown_disabled |-> TRUE, under_way |-> UnderWay(v)])
                  ELSE With(@, [timed_out |-> TRUE, disabled |-> TRUE,
                                placeholder |-> "timed_out", under_way |-> UnderWay(v)])]
  /\ UNCHANGED <<cmd, flow, referer, referer_by>>
  /\ BotFrame

\* the bot is up, nobody has used it yet
BotStarted ==
  /\ FunctionsIdle
  /\ referer = NoUrl
  /\ cmd = [u \in Users |-> NoCmd]
  /\ view = [u \in Users |-> NoView]
  /\ flow = [f \in Flows |-> IdleFlow]
  /\ referer_by = NoFlow
  /\ search = NoSearchRun

\* one user searches and selects, anybody may select on the view, and
\* the calls of the Discord API may fail
InitLone ==
  /\ BotStarted
  /\ env = Env({"A"}, TRUE, TablesOfPages)

\* two users search and select at the same time; the site has one book
InitRace ==
  /\ BotStarted
  /\ env = Env(Users, FALSE,
               {<<Table("match", <<Item(Url("http", "mirror.org", "/main/1"), Mirror2, Details)>>)>>})

\* a coroutine is resumed: the call it awaits has ended
Resumed ==
  \/ \E u \in Users : FindbookMagz(u) \/ SearchReturned(u) \/ SearchParsed(u)
                        \/ FindbookResponded(u)
  \/ \E f \in Flows : StatusSent(f) \/ PageFetched(f) \/ ResolveReturned(f)
                        \/ HeadReturned(f) \/ GetReturned(f) \/ Reported(f)

NextBot ==
  \/ \E u \in Users : FindbookInvoke(u)
  \/ \E u \in Users : FindbookMagz(u)
  \/ \E u \in Users : SearchReturned(u)
  \/ \E u \in Users : SearchParsed(u)
  \/ \E u \in Users : FindbookResponded(u)
  \/ \E v \in Users, u \in Users : SelectCallback(v, u)
  \/ \E f \in Flows : StatusSent(f)
  \/ \E f \in Flows : PageFetched(f)
  \/ \E f \in Flows : ResolveReturned(f)
  \/ \E f \in Flows : HeadReturned(f)
  \/ \E f \in Flows : GetReturned(f)
  \/ \E f \in Flows : Reported(f)
  \/ \E v \in Users : ViewTimeout(v)

\* the steps of the users' own searches and selections, while no view times out
NextRace ==
  \/ \E u \in Users : FindbookInvoke(u)
  \/ \E u \in Users : FindbookMagz(u)
  \/ \E u \in Users : SearchReturned(u)
  \/ \E u \in Users : SearchParsed(u)
  \/ \E u \in Users : FindbookResponded(u)
  \/ \E u \in Users : SelectCallback(u, u)
  \/ \E f \in Flows : StatusSent(f)
  \/ \E f \in Flows : PageFetched(f)
  \/ \E f \in Flows : ResolveReturned(f)
  \/ \E f \in Flows : HeadReturned(f)
  \/ \E f \in Flows : GetReturned(f)
  \/ \E f \in Flows : Reported(f)

SpecLone == InitLone /\ [][NextBot]_vars
SpecRace == InitRace /\ [][NextRace]_vars

\* every call that is awaited ends (the requests have timeouts, a body is
\* streamed in finitely many chunks) and the event loop resumes its coroutine
\* (the pages of the site have one row at most)
InitLoneFair ==
  /\ BotStarted
  /\ env = Env({"A"}, TRUE, OneRowPages)
SpecLoneFair == InitLoneFair /\ [][NextBot]_vars /\ WF_vars(Resumed)


\* two users search, each results message has its view, and the views time
\* out; the site has two books
InitHeld ==
  /\ BotStarted
  /\ env = Env(Users, FALSE,
               {<<Table("match", <<>>)>>,
                <<Table("match", <<Item(Url("http", "mirror.org", "/main/1"), Mirror2, Details)>>)>>,
                <<Table("match", <<Item(Url("http", "mirror.org", "/b.epub"), NoUrl, Details)>>)>>})

NextHeld ==
  \/ \E u \in Users : FindbookInvoke(u)
  \/ \E u \in Users : FindbookMagz(u)
  \/ \E u \in Users : SearchReturned(u)
  \/ \E u \in Users : SearchParsed(u)
  \/ \E u \in Users : FindbookResponded(u)
  \/ \E v \in Users : ViewTimeout(v)

SpecHeld == InitHeld /\ [][NextHeld]_vars


\* ------------------------------------------------------------ the loop over the rows
\* one turn of: for row_index, row in enumerate(rows[1:], 1)
RowParsed ==
  /\ search.pc = "rows"
  /\ search.row_index < Len(search.rows)
  /\ search' = AfterRow(search, ParseRow(search.search_topic, search.rows[search.row_index + 1]))
  /\ UNCHANGED <<dvars, rvars, env, cmd, view, flow, referer_by>>

\* return results
RowsEnd ==
  /\ search.pc = "rows"
  /\ search.row_index = Len(search.rows)
  /\ search' = With(search, [pc |-> "done"])
  /\ UNCHANGED <<dvars, rvars, env, cmd, view, flow, referer_by>>

\* the data rows of a table of each topic
InitParse ==
  /\ FunctionsIdle
  /\ referer = NoUrl
  /\ env = Env({}, FALSE, {})
  /\ cmd = [u \in Users |-> NoCmd]
  /\ view = [u \in Users |-> NoView]
  /\ flow = [f \in Flows |-> IdleFlow]
  /\ referer_by = NoFlow
  /\ search \in {SearchRun(t, rows) :
                   t \in {"libgen"}, rows \in UNION {[1..n -> Rows("libgen")] : n \in 0..MaxRows}}
               \cup {SearchRun(t, rows) :
                   t \in {"fiction"}, rows \in UNION {[1..n -> Rows("fiction")] : n \in 0..MaxRows}}
               \cup {SearchRun(t, rows) :
                   t \in {"scimag"}, rows \in UNION {[1..n -> Rows("scimag")] : n \in 0..MaxRows}}

NextParse ==
  \/ RowParsed
  \/ RowsEnd

SpecParse == InitParse /\ [][NextParse]_vars


\* ------------------------------------------------------------ properties
RECURSIVE Flatten(_)
Flatten(chunks) == IF chunks = <<>> THEN <<>> ELSE Head(chunks) \o Flatten(Tail(chunks))

Front(q) == SubSeq(q, 1, Len(q) - 1)

returned == pc = "done" /\ ~propagated
has_response == response # NoResp

\* C1: while the body is streamed, the buffer never holds more than the cap; as
\* soon as the bytes received exceed the cap the function is over, the response
\* is closed, the buffer holds the chunks before the offending one and nothing
\* of it or after it, and the outcome is TooLarge with the bytes received so far.
C1_MidStreamAbort ==
  /\ Len(file_buffer.data) <= DISCORD_FILE_LIMIT_BYTES
  /\ Len(Flatten(received)) > DISCORD_FILE_LIMIT_BYTES =>
       /\ returned
       /\ response.closed
       /\ file_buffer.data = Flatten(Front(received))
       /\ result = Text("TooLarge", Len(Flatten(received)), 0, None, None)

C1_Witness ==
  /\ pc = "done"
  /\ Len(Flatten(received)) > DISCORD_FILE_LIMIT_BYTES
  /\ file_buffer.data # <<>>
  /\ result.kind = "TooLarge"

\* C2: once the GET response exists, it is closed when the function has returned.
C2_ClosedOnEveryExit == (pc = "done" /\ has_response) => response.closed

\* C3: a HEAD response that succeeded and advertises a Content-Length above the
\* cap ends the download as TooLarge, with no GET issued and no body byte read.
C3_HeadTooLargeNoGet ==
  (/\ head_response # NoResp
   /\ head_response.status < 400
   /\ ParseInt(head_response.content_length) > DISCORD_FILE_LIMIT_MB * BLOCKS_PER_MB) =>
    /\ returned
    /\ result.type = "str" /\ result.kind = "TooLarge"
    /\ get_calls = 0 /\ ~has_response
    /\ chunks_read = 0 /\ ~peeked

C3_Witness ==
  /\ pc = "done"
  /\ head_response.status = 200 /\ head_response.content_length = "9"
  /\ result.kind = "TooLarge" /\ result.size = 9

\* C4: a GET response whose Content-Type indicates HTML never gives Success: the
\* function returns a failure, the response is closed and no body chunk was
\* streamed into the buffer.
C4_HtmlFailsClosedUnbuffered ==
  (pc = "done" /\ has_response /\ response.content_type = "text/html; charset=utf-8") =>
    /\ ~propagated
    /\ result.type = "str"
    /\ response.closed
    /\ chunks_read = 0 /\ file_buffer.data = <<>>

\* the CAPTCHA markers, looked for in a body prefix
MarkersIn(snippet) ==
  snippet \in {"Solve the CAPTCHA", "Verify you are human", "<form>"}

\* C5 as stated: for an HTML GET response the failure is CaptchaBlocked with the
\* final URL when the inspected prefix holds CAPTCHA markers, HtmlPoisoned with
\* the final URL otherwise (a failed peek included).
C5_HtmlFailureKind_AsStated ==
  (pc = "done" /\ has_response /\ response.content_type = "text/html; charset=utf-8") =>
    result =
      Text(IF text_snippet # None /\ MarkersIn(text_snippet)
           THEN "CaptchaBlocked" ELSE "HtmlPoisoned",
           0, 0, response.url, None)

\* C5 amended: for an HTML GET response whose status is below 400 and not one
\* of the fast-fail codes, the failure is CaptchaBlocked with the final URL
\* when the final URL is a sci-hub one and the inspected prefix holds CAPTCHA
\* markers, HtmlPoisoned with the final URL otherwise (a failed peek included).
C5_HtmlFailureKind ==
  (/\ pc = "done" /\ has_response
   /\ response.content_type = "text/html; charset=utf-8"
   /\ response.status < 400 /\ response.status \notin {502, 503, 504, 404, 403}) =>
    /\ ~propagated
    /\ result =
         Text(IF /\ text_snippet # None
                 /\ MarkersIn(text_snippet)
                 /\ response.url = "https://sci-hub.se/x"
              THEN "CaptchaBlocked" ELSE "HtmlPoisoned",
              0, 0, response.url, None)

C5_Witness ==
  /\ pc = "done"
  /\ result.kind = "CaptchaBlocked"
  /\ text_snippet = "<form>"
  /\ result.url = "https://sci-hub.se/x"

\* the failure kind an exception class is reported as
KindOf(cls) ==
  IF cls = "Timeout" THEN "Timeout"
  ELSE IF cls \in {"ConnectionError", "HTTPError"} THEN "ConnError"
  ELSE "Other"

ReportedAsFailure(x) ==
  /\ result.type = "str"
  /\ result.kind = KindOf(x.exc.cls)
  /\ result.msg = x.exc.msg

\* C6 as stated: every exception raised inside download is returned as a
\* failure of its kind with its message, and none propagates.
C6_ExceptionsReturned_AsStated ==
  pc = "done" => (~propagated /\ \A x \in raised : ReportedAsFailure(x))

\* C6 amended: every exception raised inside download, other than one raised
\* in the HEAD probe or while peeking at an HTML body (those are swallowed), is
\* returned as a failure of its kind (Timeout, transport error, Other) with its
\* message, and no exception propagates out of download.
C6_ExceptionsReturned ==
  /\ ~propagated
  /\ pc = "done" =>
       \A x \in raised : x.site \notin {"head", "peek"} => ReportedAsFailure(x)

C6_Witness ==
  /\ pc = "done"
  /\ \E x \in raised : x.site = "stream" /\ x.exc.cls = "Timeout"
  /\ result.kind = "Timeout"

\* C7: a failed HEAD probe (request exception, error status, unparsable
\* Content-Length) never ends the download: the GET request is issued.
C7_HeadFailureFallsThrough ==
  ((\E x \in raised : x.site = "head")
     \/ (head_response # NoResp /\ head_response.status >= 400)
     \/ (head_response # NoResp /\ head_response.content_length = "abc")) =>
    /\ get_calls = 1
    /\ pc = "done" => (has_response \/ \E x \in raised : x.site = "get")

C7_Witness ==
  /\ pc = "done"
  /\ head_response.content_length = "abc"
  /\ result.type = "File"

\* C8: a GET response with status 502, 503, 504, 404 or 403 ends the download
\* as ServerError naming the status, with no header inspected and no body read.
C8_FastFailStatus ==
  (has_response /\ response.status \in {502, 503, 504, 404, 403}) =>
    /\ returned
    /\ result = Text("ServerError", 0, response.status, None, None)
    /\ ~headers_read
    /\ chunks_read = 0 /\ ~peeked /\ received = <<>>

C8_Witness ==
  pc = "done" /\ response.status = 403 /\ result.kind = "ServerError" /\ head_failed

\* a sanitized name: not empty, no hostile character, no encoded character, no
\* run of dots, no dot or blank at either end
Sanitized(name) ==
  /\ name # <<>>
  /\ \A i \in 1..Len(name) : name[i] \notin HostileChars \cup {"%2F"}
  /\ \A i \in 1..(Len(name) - 1) : ~(name[i] = "." /\ name[i + 1] = ".")
  /\ name[1] \notin {".", " "} /\ name[Len(name)] \notin {".", " "}

\* C9: a GET that succeeded with a non-HTML type and whose body was streamed
\* without a read error and totals at most the cap (exactly the cap included)
\* gives Success: the bytes are the received chunks in order, read from the
\* start, the file name is a sanitized base, a dot and the resolved extension;
\* and an outcome is a file or a text, never both.
C9_SuccessWithinCap ==
  /\ (/\ pc = "done" /\ has_response
      /\ response.status < 400 /\ response.content_type # "text/html; charset=utf-8"
      /\ (stream_ended \/ received # <<>>)
      /\ ~\E x \in raised : x.site = "stream"
      /\ Len(Flatten(received)) <= DISCORD_FILE_LIMIT_MB * BLOCKS_PER_MB) =>
       /\ ~propagated
       /\ result.type = "File"
       /\ result.fp = Flatten(received)
       /\ result.fp = [i \in 1..Len(result.fp) |-> i]
       /\ Len(result.filename) >= 3
       /\ result.filename[Len(result.filename)] = final_extension
       /\ result.filename[Len(result.filename) - 1] = "."
       /\ Front(Front(result.filename)) = filename_base
       /\ Sanitized(filename_base)
  /\ result.type = "File" => (result.kind = None /\ result.msg = None /\ result.url = None)
  /\ result.type = "str" => (result.kind # None /\ result.fp = <<>> /\ result.filename = <<>>)

C9_Witness ==
  /\ pc = "done"
  /\ result.type = "File"
  /\ Len(result.fp) = DISCORD_FILE_LIMIT_BYTES
  /\ Len(received) = 2


\* the patterns that find a link on the page fetched
MatchingPatterns ==
  {k \in 1..4 : PatternTag(k, page_response.anchors, page_url.host).found}

Lowest(S) == CHOOSE k \in S : \A j \in S : k <= j

\* C10: the link the resolver takes from a page is the link of the
\* lowest-numbered pattern that matches the page, whatever the later patterns
\* match, and pattern 4 is used only when patterns 1 to 3 chose no GET anchor.
C10_FirstPatternWins ==
  parsed =>
    /\ pattern_used = IF MatchingPatterns = {} THEN 0 ELSE Lowest(MatchingPatterns)
    /\ pattern_used # 0 =>
         /\ download_link_tag = PatternTag(pattern_used, page_response.anchors, page_url.host)
         /\ download_link_tag.href # Url("", "", "") =>
              resolve_result = urljoin(page_response.url, download_link_tag.href)
    /\ pattern_used = 4 =>
         \A k \in 1..3 : ~PatternTag(k, page_response.anchors, page_url.host).found

C10_Witness ==
  /\ rpc = "done" /\ parsed
  /\ pattern_used = 2
  /\ Pattern3(page_response.anchors, page_url.host).found
  /\ Pattern3(page_response.anchors, page_url.host).at # download_link_tag.at
  /\ resolve_result = Url("http", "cdn.example", "/get?key=K")

\* C11: when a pattern yields an href, resolve returns it made absolute
\* against the final URL of the fetched page (after redirects), not against
\* the URL that was asked for: an absolute href as it is, a relative one on
\* the scheme and host of the final URL.
C11_JoinedAgainstFinalUrl ==
  (parsed /\ download_link_tag.found /\ download_link_tag.href # Url("", "", "")) =>
    LET href == download_link_tag.href
        final == page_response.url
    IN  IF href.scheme # ""
        THEN resolve_result = href
        ELSE resolve_result = Url(final.scheme, final.host, href.path)

C11_Witness ==
  /\ rpc = "done" /\ parsed
  /\ page_url = Url("http", "mirror.org", "/main/1")
  /\ page_response.url = Url("http", "hostb.org", "/ads.php")
  /\ pattern_used = 1
  /\ download_link_tag.href = Url("", "", "/get.php?md5=ABC")
  /\ resolve_result = Url("http", "hostb.org", "/get.php?md5=ABC")

\* C12: when the fetched page matches none of the four patterns, resolve
\* returns the URL it was asked for, unchanged, if that URL ends in a known
\* document extension, and none otherwise.
C12_DocumentUrlFallback ==
  (parsed /\ MatchingPatterns = {}) =>
    resolve_result = IF page_url.path \in {"/b.PDF", "/b.epub"} THEN page_url ELSE NoUrl

C12_Witness ==
  /\ rpc = "done" /\ parsed
  /\ MatchingPatterns = {}
  /\ page_response.anchors # <<>>
  /\ page_response.url # page_url
  /\ resolve_result = Url("http", "mirror.org", "/b.epub")

\* the requests of a flow that its download sent: the HEAD request and the
\* GET request after the one for the page
LinkRequests(fl) ==
  {i \in 1..Len(fl.requests) : fl.requests[i].method = "HEAD" \/ i > 1}

\* the resolver of the flow was called and came to one of its negative ends:
\* URL rejected, fetch failed, status not 2xx, parsing raised, no candidate
ResolveNegative(fl) ==
  LET m1 == fl.item.mirror1_url
  IN  /\ fl.resolve_calls = 1
      /\ fl.pc \in {"report", "done"}
      /\ \/ m1.scheme \notin {"http", "https"}
         \/ m1.host = "[x"
         \/ fl.fetch_exc # None
         \/ fl.page_status \notin 200..299
         \/ fl.parse_raised
         \/ /\ \A k \in 1..4 : ~PatternTag(k, fl.page, m1.host).found
            /\ m1.path \notin {"/b.PDF", "/b.epub", "/long.epub"}

\* C13: the resolver never raises: a page URL that is invalid or not http, a
\* fetch that fails or ends with a status that is not 2xx, a parsing error and
\* a page without candidate all end in the result none, and the selection
\* then reports that no download link was found and never calls the download.
C13_ResolveNegativeIsNone ==
  \A f \in Flows :
    ResolveNegative(flow[f]) =>
      /\ flow[f].direct_download_link = NoUrl
      /\ flow[f].download_calls = 0
      /\ LinkRequests(flow[f]) = {}
      /\ flow[f].download_result = None
      /\ flow[f].error_message = "no_link"
      /\ flow[f].status_message = "explanation" =>
           flow[f].explanation = Explanation("mirror1_failed", "no_link", NoUrl,
                                             flow[f].explanation.offer)
      /\ flow[f].raised => flow[f].discord_failed

C13_Witness ==
  LET fl == flow[<<"A", "A">>]
  IN  /\ fl.pc = "done"
      /\ fl.parse_raised
      /\ \E k \in 1..4 : PatternTag(k, fl.page, fl.item.mirror1_url.host).found
      /\ fl.status_message = "explanation"
      /\ fl.explanation.reason = "no_link"
      /\ ~fl.raised

\* C14: the Referer of the shared session changes only when the page request
\* of a resolver comes back with success, and then to the final URL of that
\* page; a search, a resolver that rejects its URL or whose fetch fails, and a
\* download leave it as it is.  With one flow alone, the requests of the
\* download that follows a successful resolve carry that final URL as Referer.
C14_RefererFrame ==
  /\ [][referer' # referer =>
          \E f \in Flows :
            /\ flow[f].pc = "fetch" /\ flow'[f].pc = "sleep"
            /\ flow'[f].page_status \in 200..299
            /\ referer' = flow'[f].final_url]_vars
  /\ [][\A f \in Flows :
          (flow[f].pc = "fetch" /\ flow'[f].pc = "sleep") => referer' = flow'[f].final_url]_vars
  /\ [](\A f \in Flows :
          /\ flow[f].download_calls = 1 => flow[f].sent_referer = flow[f].final_url
          /\ \A i \in LinkRequests(flow[f]) : flow[f].requests[i].referer = flow[f].final_url)

C14_Witness ==
  LET fl == flow[<<"A", "A">>]
  IN  /\ fl.pc = "done"
      /\ fl.download_result = "File"
      /\ fl.final_url = Url("http", "hostb.org", "/ads.php")
      /\ fl.item.mirror1_url = Url("http", "mirror.org", "/main/1")
      /\ Len(fl.requests) = 3
      /\ fl.requests[1].referer = BaseReferer
      /\ fl.requests[2] = Request("HEAD", fl.direct_download_link, fl.final_url)
      /\ fl.requests[3] = Request("GET", fl.direct_download_link, fl.final_url)
      /\ referer = fl.final_url

\* C15: with the selections of two users running at the same time on the
\* shared session, the requests of a download carry the Referer that the
\* session held when the download copied the headers: the final URL of the
\* page of whichever flow's resolver wrote it last, which can be the other
\* user's flow (C15_Witness) instead of the flow's own page.
C15_RefererOfLastWriter ==
  \A f \in Flows :
    flow[f].download_calls = 1 =>
      /\ flow[f].sent_by \in Flows
      /\ flow[f].sent_referer = flow[flow[f].sent_by].final_url
      /\ \A i \in LinkRequests(flow[f]) :
           flow[f].requests[i].referer = flow[flow[f].sent_by].final_url

C15_Witness ==
  LET a == flow[<<"A", "A">>]
      b == flow[<<"B", "B">>]
  IN  /\ a.pc = "get"
      /\ a.sent_by = <<"B", "B">>
      /\ a.final_url = Url("http", "mirror.org", "/main/1")
      /\ b.final_url = Url("http", "hostb.org", "/ads.php")
      /\ a.requests[2] = Request("HEAD", a.direct_download_link, b.final_url)
      /\ a.requests[3] = Request("GET", a.direct_download_link, b.final_url)
      /\ b.pc = "sleep"

\* the flow has failed: its resolver found no link or its download returned a text
FlowFailed(fl) ==
  fl.error_message \in {"no_link", "no_mirror1"} \/ fl.download_result \in {"TooLarge", "Failed"}

\* C16: nothing is retried: in the flow of a selection the resolver is called
\* at most once and only on the first mirror, the download is called at most
\* once and sends at most one HEAD and one GET request, and the second
\* mirror is never requested; once a flow has failed it only reports (one
\* step to its end), and a flow that has ended takes no further step.
C16_NoRetry ==
  /\ [](\A f \in Flows :
          LET fl == flow[f]
              page == {i \in 1..Len(fl.requests) : i = 1 /\ fl.requests[i].method = "GET"}
              heads == {i \in 1..Len(fl.requests) : fl.requests[i].method = "HEAD"}
              gets == {i \in 1..Len(fl.requests) : i > 1 /\ fl.requests[i].method = "GET"}
          IN  /\ fl.resolve_calls <= 1
              /\ fl.download_calls <= 1
              /\ Cardinality(page) <= fl.resolve_calls
              /\ Cardinality(heads) <= fl.download_calls
              /\ Cardinality(gets) <= fl.download_calls
              /\ Len(fl.requests) <= 3
              /\ \A i \in page : fl.requests[i].url = fl.item.mirror1_url
              /\ \A i \in heads \cup gets : fl.requests[i].url = fl.direct_download_link
              /\ fl.item.mirror2_url # NoUrl =>
                   \A i \in 1..Len(fl.requests) : fl.requests[i].url # fl.item.mirror2_url)
  /\ [][\A f \in Flows :
          /\ flow[f].pc = "done" => flow'[f] = flow[f]
          /\ (FlowFailed(flow[f]) /\ flow'[f] # flow[f]) =>
               /\ flow[f].pc = "report" /\ flow'[f].pc = "done"
               /\ flow'[f].requests = flow[f].requests
               /\ flow'[f].resolve_calls = flow[f].resolve_calls
               /\ flow'[f].download_calls = flow[f].download_calls]_vars

C16_Witness ==
  LET fl == flow[<<"A", "A">>]
  IN  /\ fl.pc = "done"
      /\ fl.download_result = "Failed"
      /\ fl.item.mirror2_url = Mirror2
      /\ fl.status_message = "explanation"
      /\ fl.explanation.offer = "mirror2"
      /\ fl.resolve_calls = 1 /\ fl.download_calls = 1
      /\ Len(fl.requests) = 3

\* the status message shows the file or says why there is none
StatusReplaced(fl) ==
  fl.status_message \in {"file", "explanation", "not_sent", "send_error"}

C18_SearchFailureDistinguished ==
  \A u \in Users :
    /\ cmd[u].path = "zero_rows" => cmd[u].results = <<>>
    /\ cmd[u].followups = <<"no_results">> =>
         cmd[u].path \notin {"transport", "status", "no_table", "no_main_table", "parse_error"}

\* C19: only the user who invoked the search may select: a selection by
\* another user is never accepted, calls neither resolver nor download, sends
\* no request and creates no status message; it leaves the view, the session
\* and every other flow as they are, and the only message is the refusal.
C19_OnlyInvokerSelects ==
  /\ [](\A v \in Users, u \in Users :
          u # v =>
            LET fl == flow[<<v, u>>]
            IN  /\ ~fl.accepted
                /\ fl.resolve_calls = 0 /\ fl.download_calls = 0
                /\ fl.requests = <<>>
                /\ fl.status_message = None
                /\ fl.messages \subseteq {"refusal"}
                /\ fl.pc \in {"idle", "done"})
  /\ [][\A v \in Users, u \in Users :
          (u # v /\ flow'[<<v, u>>] # flow[<<v, u>>]) =>
            /\ view' = view /\ referer' = referer /\ cmd' = cmd
            /\ \A g \in Flows \ {<<v, u>>} : flow'[g] = flow[g]]_vars

C19_Witness ==
  /\ flow[<<"A", "B">>].pc = "done"
  /\ flow[<<"A", "B">>].messages = {"refusal"}
  /\ view["A"].exists /\ ~view["A"].disabled /\ ~view["A"].shown_disabled
  /\ view["A"].placeholder = "select"
  /\ flow[<<"A", "A">>].pc = "idle"

\* C20: a timeout of the view while a selection is under way changes no flow
\* (nor the session nor a command): the selection runs on to its end and to
\* its last message as without the timeout; and once the view has timed out
\* no selection is taken up any more.
C20_TimeoutLeavesFlows ==
  /\ [][\A v \in Users :
          (~view[v].timed_out /\ view'[v].timed_out) =>
            flow' = flow /\ referer' = referer /\ cmd' = cmd]_vars
  /\ [][\A f \in Flows :
          (view[f[1]].timed_out /\ flow[f].pc = "idle") => flow'[f] = flow[f]]_vars
  /\ <>[](\A f \in Flows :
            f \in view[f[1]].under_way =>
              /\ flow[f].pc = "done"
              /\ StatusReplaced(flow[f]) \/ flow[f].discord_failed)

C20_Witness ==
  /\ view["A"].timed_out /\ view["A"].placeholder = "timed_out"
  /\ <<"A", "A">> \in view["A"].under_way
  /\ flow[<<"A", "A">>].pc = "done"
  /\ flow[<<"A", "A">>].download_result = "File"
  /\ flow[<<"A", "A">>].status_message = "file"
  /\ flow[<<"A", "B">>].pc = "idle"

\* C21: after a failed download the last text of the status message holds,
\* for a file too large, the link the resolver returned and the second mirror
\* if the item has one; for every other failure the second mirror if the
\* item has one, else the details page if it is not the first mirror, else
\* the statement that there is no alternative
C21_FallbackByKind ==
  \A f \in Flows :
    LET fl == flow[f]
        item == fl.item
    IN  fl.status_message = "explanation" =>
          IF fl.download_result = "TooLarge"
          THEN /\ fl.explanation.link = fl.direct_download_link
               /\ fl.direct_download_link # NoUrl
               /\ "link" \in fl.shown
               /\ item.mirror2_url # NoUrl => "mirror2" \in fl.shown
          ELSE /\ fl.explanation.link = NoUrl
               /\ fl.explanation.offer =
                    (IF item.mirror2_url # NoUrl THEN "mirror2"
                     ELSE IF item.details_url # NoUrl /\ item.details_url # item.mirror1_url
                     THEN "details"
                     ELSE "none")
               /\ fl.explanation.offer \in fl.shown
\* the extension of the file name the Content-Disposition header carries,
\* lowercased and without its dot; "" when the header carries none
HeaderExtension(cd) ==
  IF cd.present /\ cd.filename # <<>>
  THEN Lower(SplitextExt(MapUnquote(cd.filename)))
  ELSE ""

\* C22: when the Content-Disposition header carries a file name whose
\* extension is one of pdf, epub, mobi, azw3, djvu, zip, rar, txt, chm, the
\* returned file name has that extension, whatever the extension hint, the
\* Content-Type and the path of the URL are.
C22_HeaderExtensionWins ==
  (result.type = "File"
     /\ HeaderExtension(response.content_disposition)
          \in {"pdf", "epub", "mobi", "azw3", "djvu", "zip", "rar", "txt", "chm"}) =>
    /\ final_extension = HeaderExtension(response.content_disposition)
    /\ SplitextExt(result.filename) = HeaderExtension(response.content_disposition)

C22_Witness ==
  /\ result.type = "File"
  /\ extension = "n/a"
  /\ HeaderExtension(response.content_disposition) = "epub"
  /\ response.content_type = "application/pdf"
  /\ response.url = "http://h/b.djvu"
  /\ SplitextExt(result.filename) = "epub"
\* the extension of the path of the URL, lowercased and without its dot
UrlExtension(url) == Lower(SplitextExt(UrlPath(url)))

\* the hint says that the extension is not known
UnknownHint(hint) == hint \in {"n/a", "bin"}

\* C23 as stated: the extension is the header's if it is in the allowlist;
\* else the header's if the hint is unknown and the header has one; else the
\* one the Content-Type maps to; else the extension of the URL path; else bin.
C23_Precedence_AsStated ==
  pc = "named" =>
    LET h == HeaderExtension(response.content_disposition)
        t == ContentTypeBase(response.content_type)
        u == UrlExtension(response.url)
    IN  final_extension =
          (IF h \in {"pdf", "epub", "mobi", "azw3", "djvu", "zip", "rar", "txt", "chm"} THEN h
           ELSE IF UnknownHint(extension) /\ h # "" THEN h
           ELSE IF t \in type_map_keys THEN type_map(t)
           ELSE IF u # "" THEN u
           ELSE "bin")

\* C23: the extension is the header's if it is in the allowlist; else the
\* lowercased hint if the hint is known; else the header's if the header has
\* one; and where this gives bin (or nothing): the one the Content-Type maps
\* to, else the extension of the URL path if it is in the allowlist, else bin.
C23_Precedence ==
  pc = "named" =>
    LET allow == {"pdf", "epub", "mobi", "azw3", "djvu", "zip", "rar", "txt", "chm"}
        h == HeaderExtension(response.content_disposition)
        t == ContentTypeBase(response.content_type)
        u == UrlExtension(response.url)
        e == IF h \in allow THEN h
             ELSE IF ~UnknownHint(extension) THEN Lower(extension)
             ELSE IF h # "" THEN h
             ELSE "bin"
    IN  final_extension =
          (IF e # "bin" THEN e
           ELSE IF t \in type_map_keys THEN type_map(t)
           ELSE IF u \in allow THEN u
           ELSE "bin")

C23_Witness ==
  /\ pc = "named"
  /\ extension = "bin"
  /\ HeaderExtension(response.content_disposition) = "bin"
  /\ response.content_type = "application/octet-stream"
  /\ response.url = "http://h/b.djvu"
  /\ final_extension = "djvu"
\* the row has enough cells and its title link, if any, has an href that
\* urljoin takes
ReadInFull(topic, row) ==
  /\ row.cells > MaxDefinedIndex(topic)
  /\ ~(row.title.link /\ row.title.href.host = "[x")

\* no mirror cell of the row has an anchor with an http href
NoMirrorLink(row) == \A i \in 1..Len(row.hrefs) : ~IsHttpHref(row.hrefs[i])

\* the row gives no first mirror: the mirror1 cell has no http link, or
\* the one mirrors cell has none at all
NoPrimaryLink(topic, row) ==
  IF topic \in {"fiction", "scimag"} THEN NoMirrorLink(row) ELSE ~IsHttpHref(row.hrefs[1])

\* C24: every entry of results has a first or a second mirror URL; a row
\* without http mirror link and without title link is not appended; a row
\* without first mirror link and with a title link is appended with the
\* details URL as its first mirror.
C24_ItemHasMirror ==
  /\ \A i \in 1..Len(search.results) :
       search.results[i].mirror1_url # NoUrl \/ search.results[i].mirror2_url # NoUrl
  /\ \A k \in 1..Len(search.fate) :
       LET row == search.rows[k]
           f == search.fate[k]
       IN  ReadInFull(search.search_topic, row) =>
             /\ (NoMirrorLink(row) /\ ~row.title.link) => f.kind = "no_links"
             /\ (NoPrimaryLink(search.search_topic, row) /\ row.title.link) =>
                  /\ f.kind = "item"
                  /\ f.item.details_url = Details
                  /\ f.item.mirror1_url = Details
                  /\ search.results[Len(search.results)] = f.item \/ k < Len(search.fate)

C24_Witness ==
  /\ search.pc = "done"
  /\ search.search_topic = "libgen"
  /\ Len(search.rows) = 2
  /\ search.fate[1].kind = "no_links"
  /\ search.rows[2].hrefs = <<Url("", "", "/ads.php"), Mirror2>>
  /\ search.results = <<ResultItem(<<"Book">>, Details, Mirror2, Details)>>

\* C25: the title of every entry of results is not empty and does not end in
\* a bracketed run of 10 to 13 digits, for a title cell with a link and for
\* one with plain text; a row whose title is blank is not appended.
C25_TitleClean ==
  /\ \A i \in 1..Len(search.results) :
       LET t == search.results[i].title
       IN  t # <<>> /\ ~IsIsbn(t[Len(t)])
  /\ \A k \in 1..Len(search.fate) :
       search.rows[k].title.text = <<>> => search.fate[k].kind # "item"

\* the entries of the rows that were appended, in the order of the rows
RECURSIVE ItemsOf(_)
ItemsOf(fate) ==
  IF fate = <<>> THEN <<>>
  ELSE (IF Head(fate).kind = "item" THEN <<Head(fate).item>> ELSE <<>>) \o ItemsOf(Tail(fate))

\* C26: in every topic a row with fewer cells than the largest column index
\* is not appended; a row that is skipped (too few cells, an exception) does
\* not end the loop: every row is read, and the rows that are read in full
\* and have a link are in results in the order of the table.
C26_ShortRowsSkipped ==
  /\ Len(search.fate) = search.row_index
  /\ search.results = ItemsOf(search.fate)
  /\ \A k \in 1..Len(search.fate) :
       LET row == search.rows[k]
       IN  /\ row.cells < MaxDefinedIndex(search.search_topic) => search.fate[k].kind = "short"
           /\ (ReadInFull(search.search_topic, row) /\ (row.title.link \/ ~NoMirrorLink(row))) =>
                search.fate[k].kind = "item"
  /\ search.pc = "done" => Len(search.fate) = Len(search.rows)

C26_Witness ==
  /\ search.pc = "done"
  /\ search.search_topic = "fiction"
  /\ Len(search.rows) = 2
  /\ search.rows[1].cells = 4
  /\ search.fate[1].kind = "short"
  /\ search.fate[2].kind = "item"
  /\ Len(search.results) = 1
C28_GetLengthChecked ==
  (/\ has_response
   /\ response.status = 200
   /\ ~IsHtml(response.content_type)
   /\ ParseInt(response.content_length) > DISCORD_FILE_LIMIT_MB * BLOCKS_PER_MB
   /\ head_failed \/ (head_response # NoResp /\ head_response.content_length = None)) =>
    /\ returned
    /\ result.type = "str" /\ result.kind = "TooLarge"
    /\ response.closed
    /\ chunks_read = 0 /\ received = <<>>
====
